---------------------------- MODULE Spec2Model ----------------------------
(***************************************************************************)
(* A model of the citizenship cog (src/citizenship/citizenship.py): the    *)
(* bidirectional identity store (Cached over a bidict), the claim workflow *)
(* (set_nation and the handlers around it), the cooldown table, the title  *)
(* cache with the role reconciler, and the refresh task's sleep arithmetic.*)
(*                                                                         *)
(* Python dicts are functions whose DOMAIN is the set of keys.  Strings    *)
(* that the code normalises (nation names) are sequences of one-character  *)
(* strings, so that nid works on them as re.sub/lower/replace do.          *)
(***************************************************************************)
EXTENDS Integers, Sequences, FiniteSets, TLC

(***************************************************************************)
(* Python dict helpers.                                                    *)
(***************************************************************************)
EmptyDict == [k \in {} |-> {}]

DictSet(d, k, v) == [x \in (DOMAIN d) \cup {k} |-> IF x = k THEN v ELSE d[x]]

DictDel(d, k) == [x \in (DOMAIN d) \ {k} |-> d[x]]

(***************************************************************************)
(* Identifier normaliser: nid (lines 33-37) over a small alphabet.         *)
(***************************************************************************)
LowerChar(c) ==
    CASE c = "T" -> "t"
      [] c = "O" -> "o"
      [] c = "L" -> "l"
      [] c = "S" -> "s"
      [] OTHER -> c

\* the letters of the alphabet in use, those str.title tells words by;
\* "U+00DF" is the one character LATIN SMALL LETTER SHARP S
IsCased(c) == c \in {"t", "o", "l", "s", "T", "O", "L", "S", "U+00DF"}

\* \w of the regular expression NVALID, restricted to the alphabet in use;
\* the pattern is a str, so \w takes every Unicode letter
IsWordChar(c) == IsCased(c) \/ c \in {"_", "1"}

\* NVALID = r"\-\w"
NVALID(c) == c = "-" \/ IsWordChar(c)

TypeError == <<"!", "TypeError">>

\* a result not computed yet
Unset == <<"!", "Unset">>

\* nid: lower(), replace(" ", "_"), drop every character outside NVALID;
\* an empty result raises TypeError
nid(arg) ==
    LET lowered  == [i \in DOMAIN arg |-> LowerChar(arg[i])]
        replaced == [i \in DOMAIN arg |-> IF lowered[i] = " " THEN "_" ELSE lowered[i]]
        ret      == SelectSeq(replaced, NVALID)
    IN  IF ret # <<>> THEN ret ELSE TypeError

\* the title case of a character: that of U+00DF is the two letters Ss
TitleChar(c) ==
    CASE c = "t" -> <<"T">>
      [] c = "o" -> <<"O">>
      [] c = "l" -> <<"L">>
      [] c = "s" -> <<"S">>
      [] c = "U+00DF" -> <<"S", "s">>
      [] OTHER -> <<c>>

RECURSIVE str_title(_, _)
\* str.title: a character after a letter is lower-cased, any other is
\* title-cased
str_title(s, previous_is_cased) ==
    IF s = <<>> THEN <<>>
    ELSE (IF previous_is_cased THEN <<LowerChar(Head(s))>> ELSE TitleChar(Head(s)))
             \o str_title(Tail(s), IsCased(Head(s)))

\* rnid, lines 40-41: replace("_", " ") and title()
rnid(arg) ==
    str_title([i \in DOMAIN arg |-> IF arg[i] = "_" THEN " " ELSE arg[i]], FALSE)

(***************************************************************************)
(* The universe of the model.                                              *)
(***************************************************************************)
Users == {"u1", "u2"}

\* raw nation names as users type them (group 2 of the usernid match)
RawNames == {<<"T", "L">>, <<"O", " ", "L">>, <<"\t">>}

Nations == {nid(r) : r \in RawNames} \ {TypeError}

\* the reserved key of the title cache; upper case, so never a nation key
ALL == <<"A", "L", "L">>

(***************************************************************************)
(* bidict: the forward and the inverse dict, kept in lockstep.  The item   *)
(* assignment of a bidict replaces the value of an existing key and raises *)
(* ValueDuplicationError, changing nothing, when the value is already      *)
(* bound to another key.                                                   *)
(***************************************************************************)
BidictPut_NoDupCheck(b, key, val) ==
    LET inv1 == IF key \in DOMAIN b.fwd THEN DictDel(b.inv, b.fwd[key]) ELSE b.inv
    IN  [fwd |-> DictSet(b.fwd, key, val), inv |-> DictSet(inv1, val, key), exc |-> ""]

BidictPut(b, key, val) ==
    IF key \in DOMAIN b.fwd /\ b.fwd[key] = val
    THEN [fwd |-> b.fwd, inv |-> b.inv, exc |-> ""]
    ELSE IF val \in DOMAIN b.inv
    THEN [fwd |-> b.fwd, inv |-> b.inv, exc |-> "ValueDuplicationError"]
    ELSE LET inv1 == IF key \in DOMAIN b.fwd THEN DictDel(b.inv, b.fwd[key]) ELSE b.inv
         IN  [fwd |-> DictSet(b.fwd, key, val), inv |-> DictSet(inv1, val, key), exc |-> ""]

\* bidict.pop(key) on the forward side
BidictPop(b, key) ==
    IF key \in DOMAIN b.fwd
    THEN [fwd |-> DictDel(b.fwd, key), inv |-> DictDel(b.inv, b.fwd[key]), exc |-> ""]
    ELSE [fwd |-> b.fwd, inv |-> b.inv, exc |-> "KeyError"]

\* bidict.inv.pop(val): the same on the inverse side
BidictInvPop(b, val) ==
    IF val \in DOMAIN b.inv
    THEN [fwd |-> DictDel(b.fwd, b.inv[val]), inv |-> DictDel(b.inv, val), exc |-> ""]
    ELSE [fwd |-> b.fwd, inv |-> b.inv, exc |-> "KeyError"]


(***************************************************************************)
(* Communities, roles and titles.  A role is known by its name; str.lower  *)
(* is the table below over the names in use.                               *)
(***************************************************************************)
Guilds == {"g1", "g2"}

\* bot.guilds, in the order the bot lists them
GuildSeq == <<"g1", "g2">>

\* guild.roles of each community, in order
GuildRoles ==
    [g \in Guilds |->
        IF g = "g1" THEN <<"Residents", "Ex-Nation", "Moderator">>
                    ELSE <<"Visitors", "Residents", "Moderator">>]

str_lower(s) ==
    CASE s = "Residents"    -> "residents"
      [] s = "Ex-Nation"    -> "ex-nation"
      [] s = "Visitors"     -> "visitors"
      [] s = "Moderator"    -> "moderator"
      [] s = "Citizens"     -> "citizens"
      [] s = "NPA Soldiers" -> "npa soldiers"
      [] s = "Executive Officer"      -> "executive officer"
      [] s = "Successor"              -> "successor"
      [] s = "World Assembly Officer" -> "world assembly officer"
      [] s = "Appearance Officer"     -> "appearance officer"
      [] s = "Border Control Officer" -> "border control officer"
      [] s = "Communications Officer" -> "communications officer"
      [] s = "Embassies Officer"      -> "embassies officer"
      [] s = "Polls Officer"          -> "polls officer"
      [] s = "Executive"              -> "executive"
      [] s = "Delegate"               -> "delegate"
      [] s = "Minister of Defense"    -> "minister of defense"
      [] OTHER -> s

RoleNames == UNION {{GuildRoles[g][i] : i \in DOMAIN GuildRoles[g]} : g \in Guilds}

SeqToSet(q) == {q[i] : i \in DOMAIN q}

(***************************************************************************)
(* Bounds of the model.                                                    *)
(***************************************************************************)
\* concurrently running handlers (commands, listeners, deletion requests)
MaxFlows == 2

\* fire-and-forget configuration writes not yet carried out
MaxPending == 1

\* the clock runs from 0 to MaxTime ticks
MaxTime == 2

\* ticks of the clock per hour
TicksPerHour == 2

\* timedelta(hours=1) of the cooldown check, line 341
CooldownHours == 1

FlowIds == 1 .. MaxFlows

\* the commands and events received by the identity store, by the claim
\* workflow with its cooldown, and by the handlers that touch roles
MaxOps == 2

CooldownOps == 3

RolesOps == 1

VARIABLES
    fwdm,           \* Cached.data of self.nations: the bidict's forward dict, user -> nation
    invm,           \* the bidict's inverse dict, nation -> user
    loaded,         \* Cached.initialize has run (Cached.data is not None)
    persisted,      \* the configuration store's per-user nation field, user -> nation
    pending,        \* configuration writes scheduled with ensure_future, oldest first
    users_lock,     \* config.get_users_lock() is held
    cooldowns,      \* self.cooldowns, user -> time of the stamp
    now,            \* the clock, in ticks
    cache,          \* self.cache, key -> set of titles
    guild_on,       \* the configuration store's per-guild "on" flag
    enabled_guilds, \* self.enabled_guilds
    api_key,        \* the shared google_sheets api_key token is set
    member_roles,   \* guild -> (member -> set of roles held)
    edit_issued,    \* the last reconciliation of a member issued member.edit
    flows,          \* the running handlers, each at its suspension point
    sent,           \* the last outcome a handler reported (or died with)
    task,           \* the refresh task: where it is, its scratch cache, its work list
    clock,          \* datetime.now().timestamp() as the sleep computation reads it
    timetil,        \* the seconds the refresh task last decided to sleep
    ops,            \* the commands and events still to be received
    claimed_at,     \* history: user -> time of their last successful self-service claim
    unclaimed,      \* history: user -> "removed" once a third-party removal took their
                    \* claim, "cycle" once a refresh cycle has begun after that
    registered,     \* bot.add_cog has registered this cog (__init__.py, line 24)
    unloaded,       \* cog_unload has run: bot.get_cog no longer gives this cog
    waiting_for,    \* self.waiting_for: "None", or the future's state, "pending" or "cancelled"
    must_cancel,    \* self.task.cancel() was called and the task has not resumed yet
    old_task,            \* the task a restart replaced, where it was when it was cancelled
    owner_sent,     \* the exceptions _callback has sent to the owners, oldest first
    norm            \* a name on its way through nid, rnid and nid again

vars == <<fwdm, invm, loaded, persisted, pending, users_lock, cooldowns, now, cache,
          guild_on, enabled_guilds, api_key, member_roles, edit_issued, flows, sent, task,
          clock, timetil, ops, claimed_at, unclaimed, registered, unloaded, waiting_for,
          must_cancel, old_task, owner_sent, norm>>

\* what only the life cycle of the refresh task changes (lines 166-187,
\* 312-320 and 545-547)
taskctl == <<registered, unloaded, must_cancel, old_task, owner_sent>>

(***************************************************************************)
(* Cached (lines 61-139).  s is the store as one handler step sees it:     *)
(* fwd/inv (the bidict), cm (self._cm: active inside a transaction, with   *)
(* the touched keys), pending (the scheduled writes) and exc (the          *)
(* exception the call raised, "" for none).                                *)
(***************************************************************************)
NoNation == <<>>

Write(user, value) == [user |-> user, value |-> value]

Store(fwd, inv, cm, pend) == [fwd |-> fwd, inv |-> inv, cm |-> cm, pending |-> pend, exc |-> ""]

NoCm == [active |-> FALSE, keys |-> {}]

\* Cached.__setitem__ of the forward view, lines 106-114
Cached_setitem(s, item, value) ==
    LET r == BidictPut(s, item, value)
    IN  IF r.exc # "" THEN [s EXCEPT !.exc = r.exc]
        ELSE IF ~s.cm.active
        THEN [s EXCEPT !.fwd = r.fwd, !.inv = r.inv,
                       !.pending = Append(@, Write(item, value))]
        ELSE [s EXCEPT !.fwd = r.fwd, !.inv = r.inv, !.cm.keys = @ \cup {item}]

\* Cached.__delitem__ of the forward view, lines 116-124: inside a
\* transaction the touched key goes to self._cm_del, an attribute that
\* nothing ever creates, after the entry has left memory
Cached_delitem(s, item) ==
    LET r == BidictPop(s, item)
    IN  IF r.exc # "" THEN [s EXCEPT !.exc = r.exc]
        ELSE IF ~s.cm.active
        THEN [s EXCEPT !.fwd = r.fwd, !.inv = r.inv,
                       !.pending = Append(@, Write(item, NoNation))]
        ELSE [s EXCEPT !.fwd = r.fwd, !.inv = r.inv, !.exc = "AttributeError"]

\* Cached.__delitem__ of the inverse view (self.nations.inv): its own _cm is
\* always None, and the write is keyed by the popped value, the user
CachedInv_delitem(s, nation) ==
    LET r == BidictInvPop(s, nation)
    IN  IF r.exc # "" THEN [s EXCEPT !.exc = r.exc]
        ELSE [s EXCEPT !.fwd = r.fwd, !.inv = r.inv,
                       !.pending = Append(@, Write(s.inv[nation], NoNation))]

\* MutableMapping.pop(key, None) over the forward view
Cached_pop(s, item) ==
    IF item \in DOMAIN s.fwd THEN Cached_delitem(s, item) ELSE s

\* MutableMapping.setdefault(key, default) over the forward view
Cached_setdefault(s, item, default) ==
    IF item \in DOMAIN s.fwd THEN s ELSE Cached_setitem(s, item, default)


(***************************************************************************)
(* Role reconciler: _role_set (lines 791-805) for the member `user` of     *)
(* `guild` holding `held`, with the cache c and the forward dict fwd.      *)
(* edit is what the callers test with `if roles:`.                         *)
(***************************************************************************)
NoRole == "None"

\* torole: the first role of the guild whose lower-cased name is n
torole(guild, n) ==
    LET rs == GuildRoles[guild]
        hits == {i \in DOMAIN rs : str_lower(rs[i]) = n}
    IN  IF hits = {} THEN NoRole
        ELSE rs[CHOOSE i \in hits : \A j \in hits : i <= j]

RoleSetResult(exc, edit, roles) == [exc |-> exc, edit |-> edit, roles |-> roles]

role_set(c, fwd, guild, user, held) ==
    IF ALL \notin DOMAIN c THEN RoleSetResult("KeyError", FALSE, {})
    ELSE IF user \notin DOMAIN fwd THEN RoleSetResult("KeyError", FALSE, {})
    ELSE
    LET alltitles == c[ALL]
        base   == {r \in held : str_lower(r) \notin alltitles}
        titles == IF fwd[user] \in DOMAIN c THEN c[fwd[user]] ELSE {"ex-nation"}
        roles  == (base \cup {torole(guild, n) : n \in titles}) \ {NoRole}
    IN  \* roles ^ base: the symmetric difference with base, not with held
        IF (roles \ base) \cup (base \ roles) # {} THEN RoleSetResult("", TRUE, roles)
        ELSE RoleSetResult("", FALSE, {})

\* the roles of the guild that remove_roles is handed: every role whose
\* lower-cased name is in the captured ALL set (lines 233, 448)
NamedRoles(guild, alltitles) ==
    {r \in SeqToSet(GuildRoles[guild]) : str_lower(r) \in alltitles}

(***************************************************************************)
(* Handlers in flight.                                                     *)
(***************************************************************************)
NoUser == "None"

Idle ==
    [kind |-> "idle", pc |-> "idle", member |-> NoUser, nation |-> NoNation,
     third_party |-> FALSE, todo |-> <<>>, alltitles |-> {}, cmkeys |-> {}, exc |-> "",
     pairs |-> <<>>, answer |-> "None"]

Report(fl, outcome) == [kind |-> fl.kind, outcome |-> outcome]

\* the handler in slot f returns (or dies) with `outcome`
Finish(f, fl, outcome) ==
    /\ flows' = [flows EXCEPT ![f] = Idle]
    /\ sent' = Report(fl, outcome)

\* a new handler takes the lowest free slot
Free(f) ==
    /\ flows[f].pc = "idle"
    /\ \A g \in DOMAIN flows : g < f => flows[g].pc # "idle"
    /\ ops > 0
    /\ registered
    /\ ~unloaded
    /\ ops' = ops - 1

(***************************************************************************)
(* set_nation (lines 330-433).                                             *)
(***************************************************************************)
\* what self.usernid.match gives: no match, or the groups (tag, name)
NoMatch == [tag |-> "nomatch", name |-> <<>>]

ClaimInputs ==
    {[tag |-> "None", name |-> r] : r \in RawNames}
        \cup {[tag |-> "Nation", name |-> <<"T", "L">>],
              [tag |-> "region", name |-> <<"T", "L">>],
              NoMatch}

casefold(s) == IF s = "Nation" THEN "nation" ELSE s

\* lines 339-343: what is left of the member's cooldown
CooldownLeft(member) == cooldowns[member] + CooldownHours * TicksPerHour - now

CooldownRejects_Never(member, third_party) == FALSE

\* lines 337-349
CooldownRejects(member, third_party) ==
    /\ ~third_party
    /\ member \in DOMAIN cooldowns
    /\ CooldownLeft(member) > 0

OwnedBy_Never(nation, member) == FALSE

\* line 362: the nation is claimed, and by this member
OwnedBy(nation, member) == nation \in DOMAIN invm /\ invm[nation] = member

\* lines 354-357: the nation key the input names, NoNation when line 355
\* turns the input down
ParsedNation(inp) ==
    IF inp.tag = "nomatch" \/ (inp.tag # "None" /\ casefold(inp.tag) # "nation")
    THEN NoNation
    ELSE nid(inp.name)

\* lines 337-402, up to the first suspension point
set_nation_begin(f, kind, member, inp, third_party) ==
    LET fl0 == [Idle EXCEPT !.kind = kind, !.member = member, !.third_party = third_party]
        nation == ParsedNation(inp)
        fl == [fl0 EXCEPT !.nation = nation]
        s == Store(fwdm, invm, NoCm, pending)
    IN
    /\ unclaimed' = IF nation \notin {NoNation, TypeError} /\ nation \in DOMAIN invm
                        /\ third_party /\ member = NoUser
                     THEN DictSet(unclaimed, invm[nation], "removed")
                     ELSE unclaimed
    /\ IF CooldownRejects(member, third_party)
       THEN /\ Finish(f, fl0, "Cooldown")
            /\ UNCHANGED <<cooldowns, fwdm, invm, pending>>
       ELSE
       /\ cooldowns' = IF ~third_party /\ member \in DOMAIN cooldowns
                       THEN DictDel(cooldowns, member) ELSE cooldowns
       /\ IF ParsedNation(inp) = NoNation
          THEN Finish(f, fl0, "NotANationName") /\ UNCHANGED <<fwdm, invm, pending>>
          ELSE IF nation = TypeError
          THEN Finish(f, fl0, "TypeError") /\ UNCHANGED <<fwdm, invm, pending>>
          ELSE IF nation \in DOMAIN invm /\ third_party /\ member = NoUser
          THEN LET r == CachedInv_delitem(s, nation)
               IN  /\ Len(pending) < MaxPending
                   /\ fwdm' = r.fwd /\ invm' = r.inv /\ pending' = r.pending
                   /\ Finish(f, fl, "NationRemoved")
          ELSE IF OwnedBy(nation, member)
          THEN Finish(f, fl, "AlreadyClaimed") /\ UNCHANGED <<fwdm, invm, pending>>
          ELSE IF nation \in DOMAIN invm /\ ~third_party
          THEN Finish(f, fl, "ClaimedByOther") /\ UNCHANGED <<fwdm, invm, pending>>
          ELSE IF member = NoUser
          THEN Finish(f, fl, "NoUserClaimed") /\ UNCHANGED <<fwdm, invm, pending>>
          ELSE /\ flows' = [flows EXCEPT ![f] =
                              [fl EXCEPT !.pc = IF ~third_party /\ member \in DOMAIN fwdm
                                                THEN "confirm" ELSE "verify"]]
               /\ UNCHANGED <<fwdm, invm, pending, sent>>

\* _identify_nation (lines 322-328): the author claims for themselves
IdentifyNation(f, author, inp) ==
    /\ loaded /\ Free(f)
    /\ set_nation_begin(f, "claim", author, inp, FALSE)
    /\ UNCHANGED <<norm, taskctl, waiting_for, claimed_at, loaded, persisted, users_lock, now, cache, guild_on, enabled_guilds,
                   api_key, member_roles, edit_issued, task, clock, timetil>>

\* _identify_set (lines 473-480): an administrator names a nation and, or
\* not, a member; third_party is `ctx.message.author != member`
IdentifySet(f, author, member, inp) ==
    /\ loaded /\ Free(f)
    /\ set_nation_begin(f, "claim", member, inp, author # member)
    /\ UNCHANGED <<norm, taskctl, waiting_for, claimed_at, loaded, persisted, users_lock, now, cache, guild_on, enabled_guilds,
                   api_key, member_roles, edit_issued, task, clock, timetil>>

\* lines 397-402: the reply to "Are you sure", or the 60 s timeout (no)
SetNationConfirm(f, answer) ==
    /\ flows[f].kind = "claim" /\ flows[f].pc = "confirm"
    /\ IF answer
       THEN flows' = [flows EXCEPT ![f].pc = "verify", ![f].answer = "True"] /\ UNCHANGED sent
       ELSE Finish(f, flows[f], "NotChanged")
    /\ UNCHANGED <<norm, taskctl, waiting_for, claimed_at, unclaimed, fwdm, invm, loaded, persisted, pending, users_lock, cooldowns, now,
                   cache, guild_on, enabled_guilds, api_key, member_roles, edit_issued, task, clock, timetil, ops>>

\* what the nation lookup of line 405 answers
ApiOutcomes == {"NotFound", "HTTPException", "the_north_pacific", "elsewhere"}

\* lines 415-421: the cache entry of the nation after the claim; `True in
\* self.cache[nation]` never holds of a set of strings, so "wa residents"
\* is never added here
PatchCache(c, nation, tnp) ==
    LET old == IF nation \in DOMAIN c THEN c[nation] ELSE {}
    IN  DictSet(c, nation,
                (old \cup {IF tnp THEN "residents" ELSE "visitors"})
                    \ {IF tnp THEN "visitors" ELSE "residents"})

\* line 413
StampCooldown(cd, member, third_party, t) == DictSet(cd, member, t)

\* the pair committed before the lookup has answered
SetNationVerify_CommitFirst(f, api) ==
    LET fl == flows[f]
        r  == Cached_setitem(Store(fwdm, invm, NoCm, pending), fl.member, fl.nation)
    IN
    /\ fl.kind = "claim" /\ fl.pc = "verify"
    /\ Len(pending) < MaxPending
    /\ fwdm' = r.fwd /\ invm' = r.inv /\ pending' = r.pending
    /\ IF api = "NotFound" THEN Finish(f, fl, "NotFound")
       ELSE IF api = "HTTPException" THEN Finish(f, fl, "Unavailable")
       ELSE flows' = [flows EXCEPT ![f] = [fl EXCEPT !.pc = "roles"]] /\ UNCHANGED sent
    /\ UNCHANGED <<norm, taskctl, waiting_for, claimed_at, unclaimed, cooldowns, cache, loaded, persisted,
                   users_lock, now, guild_on, enabled_guilds, api_key, member_roles,
                   edit_issued, task, clock, timetil, ops>>

\* lines 403-423: the lookup answers; on success the mapping is committed,
\* the cooldown stamped, the cache patched, and _add_roles (lines 560-568)
\* reads all_guilds and starts on bot.guilds
SetNationVerify(f, api) ==
    LET fl == flows[f]
        r  == Cached_setitem(Store(fwdm, invm, NoCm, pending), fl.member, fl.nation)
    IN
    /\ fl.kind = "claim" /\ fl.pc = "verify"
    /\ IF api = "NotFound"
       THEN /\ Finish(f, fl, "NotFound")
            /\ UNCHANGED <<fwdm, invm, pending, cooldowns, cache, claimed_at>>
       ELSE IF api = "HTTPException"
       THEN /\ Finish(f, fl, "Unavailable")
            /\ UNCHANGED <<fwdm, invm, pending, cooldowns, cache, claimed_at>>
       ELSE IF r.exc # ""
       THEN /\ Finish(f, fl, r.exc)
            /\ UNCHANGED <<fwdm, invm, pending, cooldowns, cache, claimed_at>>
       ELSE /\ Len(pending) < MaxPending
            /\ claimed_at' = IF fl.third_party THEN claimed_at
                              ELSE DictSet(claimed_at, fl.member, now)
            /\ fwdm' = r.fwd /\ invm' = r.inv /\ pending' = r.pending
            /\ cooldowns' = StampCooldown(cooldowns, fl.member, fl.third_party, now)
            /\ cache' = PatchCache(cache, fl.nation, api = "the_north_pacific")
            /\ flows' = [flows EXCEPT ![f] =
                           [fl EXCEPT !.pc = "roles",
                                      !.todo = SelectSeq(GuildSeq, LAMBDA g : guild_on[g])]]
            /\ UNCHANGED sent
    /\ UNCHANGED <<norm, taskctl, waiting_for, unclaimed, loaded, persisted, users_lock, now, guild_on, enabled_guilds, api_key,
                   member_roles, edit_issued, task, clock, timetil, ops>>

\* lines 569-573 under lines 422-433: the next guild of _add_roles, or the
\* end of the loop; forbidden is what member.edit answers when it is called
SetNationRoles(f, forbidden) ==
    LET fl == flows[f]
        g  == Head(fl.todo)
        rs == role_set(cache, fwdm, g, fl.member, member_roles[g][fl.member])
    IN
    /\ fl.kind = "claim" /\ fl.pc = "roles"
    /\ IF fl.todo = <<>>
       THEN /\ ~forbidden
            /\ Finish(f, fl, "NationSet") /\ UNCHANGED <<member_roles, edit_issued>>
       ELSE IF fl.member \notin DOMAIN member_roles[g]
       THEN /\ ~forbidden
            /\ flows' = [flows EXCEPT ![f].todo = Tail(@)]
            /\ UNCHANGED <<member_roles, edit_issued, sent>>
       ELSE IF rs.exc # ""
       THEN /\ ~forbidden
            /\ Finish(f, fl, rs.exc) /\ UNCHANGED <<member_roles, edit_issued>>
       ELSE IF ~rs.edit
       THEN /\ ~forbidden
            /\ edit_issued' = FALSE
            /\ flows' = [flows EXCEPT ![f].todo = Tail(@)]
            /\ UNCHANGED <<member_roles, sent>>
       ELSE IF forbidden
       THEN /\ edit_issued' = TRUE
            /\ Finish(f, fl, "NationSetRolesForbidden") /\ UNCHANGED member_roles
       ELSE /\ edit_issued' = TRUE
            /\ member_roles' = [member_roles EXCEPT ![g][fl.member] = rs.roles]
            /\ flows' = [flows EXCEPT ![f].todo = Tail(@)]
            /\ UNCHANGED sent
    /\ UNCHANGED <<norm, taskctl, waiting_for, claimed_at, unclaimed, fwdm, invm, loaded, persisted, pending, users_lock, cooldowns, now,
                   cache, guild_on, enabled_guilds, api_key, task, clock, timetil, ops>>


(***************************************************************************)
(* _identify_remove (lines 435-451) and red_delete_data_for_user (lines    *)
(* 222-235), with the loop over self.enabled_guilds they share.            *)
(***************************************************************************)
EnabledSeq == SelectSeq(GuildSeq, LAMBDA g : g \in enabled_guilds)

\* lines 438-443: the entry is deleted, then self.cache["ALL"] is read
IdentifyRemove(f, author) ==
    LET fl == [Idle EXCEPT !.kind = "remove", !.member = author]
        r  == Cached_delitem(Store(fwdm, invm, NoCm, pending), author)
    IN
    /\ loaded /\ Free(f)
    /\ IF r.exc # ""
       THEN Finish(f, fl, "NoNation") /\ UNCHANGED <<fwdm, invm, pending>>
       ELSE /\ Len(pending) < MaxPending
            /\ fwdm' = r.fwd /\ invm' = r.inv /\ pending' = r.pending
            /\ IF ALL \notin DOMAIN cache
               THEN Finish(f, fl, "KeyError")
               ELSE /\ flows' = [flows EXCEPT ![f] =
                                   [fl EXCEPT !.pc = "strip", !.todo = EnabledSeq,
                                              !.alltitles = cache[ALL]]]
                    /\ UNCHANGED sent
    /\ UNCHANGED <<norm, taskctl, waiting_for, claimed_at, unclaimed, loaded, persisted, users_lock, cooldowns, now, cache, guild_on,
                   enabled_guilds, api_key, member_roles, edit_issued, task, clock, timetil>>

Requesters == {"user", "somebody"}

\* lines 223-228: the transaction around self.nations.pop(user_id, None).
\* When the pop raises, __aexit__ commits the touched keys (none: the key
\* was never recorded), releases the lock and lets the exception out.
DeleteData(f, user, requester) ==
    LET fl == [Idle EXCEPT !.kind = "delete", !.member = user]
        r  == Cached_pop(Store(fwdm, invm, [active |-> TRUE, keys |-> {}], pending), user)
    IN
    /\ loaded /\ Free(f)
    /\ IF requester \notin {"discord_deleted_user", "owner", "user", "user_strict"}
       THEN Finish(f, fl, "UnknownRequester") /\ UNCHANGED <<fwdm, invm>>
       ELSE /\ ~users_lock
            /\ fwdm' = r.fwd /\ invm' = r.inv
            /\ IF r.exc # ""
               THEN Finish(f, fl, r.exc)
               ELSE IF ALL \notin DOMAIN cache
               THEN Finish(f, fl, "KeyError")
               ELSE /\ flows' = [flows EXCEPT ![f] =
                                   [fl EXCEPT !.pc = "strip", !.todo = EnabledSeq,
                                              !.alltitles = cache[ALL]]]
                    /\ UNCHANGED sent
    /\ UNCHANGED <<norm, taskctl, waiting_for, claimed_at, unclaimed, loaded, persisted, pending, users_lock, cooldowns, now, cache, guild_on,
                   enabled_guilds, api_key, member_roles, edit_issued, task, clock, timetil>>

\* lines 229-235 and 444-451: the next enabled guild; discord.Forbidden
\* from remove_roles is suppressed and the loop goes on
StripRoles(f, forbidden) ==
    LET fl == flows[f]
        g  == Head(fl.todo)
        named == NamedRoles(g, fl.alltitles)
    IN
    /\ fl.kind \in {"remove", "delete"} /\ fl.pc = "strip"
    /\ IF fl.todo = <<>>
       THEN /\ ~forbidden
            /\ Finish(f, fl, IF fl.kind = "remove" THEN "NationRemoved" ELSE "Deleted")
            /\ UNCHANGED member_roles
       ELSE /\ flows' = [flows EXCEPT ![f].todo = Tail(@)]
            /\ UNCHANGED sent
            /\ IF fl.member \notin DOMAIN member_roles[g]
               THEN ~forbidden /\ UNCHANGED member_roles
               ELSE IF forbidden
               THEN UNCHANGED member_roles
               ELSE member_roles' = [member_roles EXCEPT ![g][fl.member] = @ \ named]
    /\ UNCHANGED <<norm, taskctl, waiting_for, claimed_at, unclaimed, fwdm, invm, loaded, persisted, pending, users_lock, cooldowns, now,
                   cache, guild_on, enabled_guilds, api_key, edit_issued, task, clock, timetil, ops>>

(***************************************************************************)
(* _identify_import (lines 244-269).                                       *)
(***************************************************************************)
\* the longest "nations" section of a legacy file
MaxImport == 2

\* "nations": nation -> user id, in the order of the file
ImportNations ==
    {q \in UNION {[1 .. n -> Nations \X Users] : n \in 0 .. MaxImport} :
        \A i, j \in DOMAIN q : i # j => q[i][1] # q[j][1]}

\* the per-server sections: server id -> "on"
ImportServers == UNION {[G -> BOOLEAN] : G \in SUBSET Guilds}

RECURSIVE ImportLoop(_, _)
\* lines 268-269: setdefault for each pair until one raises
ImportLoop(s, q) ==
    IF q = <<>> \/ s.exc # "" THEN s
    ELSE ImportLoop(Cached_setdefault(s, Head(q)[2], Head(q)[1]), Tail(q))

\* lines 260-266: the api key is stored and each server's flag written
ImportStart(f, nations_data, servers_data) ==
    /\ loaded /\ Free(f)
    /\ api_key' = TRUE
    /\ guild_on' = [g \in Guilds |-> IF g \in DOMAIN servers_data THEN servers_data[g]
                                     ELSE guild_on[g]]
    /\ flows' = [flows EXCEPT ![f] = [Idle EXCEPT !.kind = "import", !.pc = "load",
                                                 !.pairs = nations_data]]
    /\ UNCHANGED <<norm, taskctl, waiting_for, claimed_at, unclaimed, fwdm, invm, loaded, persisted, pending, users_lock, cooldowns, now,
                   cache, enabled_guilds, member_roles, edit_issued, sent, task, clock, timetil>>

\* lines 267-269 and 97-98: the lock is taken, the pairs are loaded, and
\* __aexit__ takes the touched keys
ImportLoad(f) ==
    LET fl == flows[f]
        r  == ImportLoop(Store(fwdm, invm, [active |-> TRUE, keys |-> {}], pending), fl.pairs)
    IN
    /\ fl.kind = "import" /\ fl.pc = "load"
    /\ ~users_lock
    /\ users_lock' = TRUE
    /\ fwdm' = r.fwd /\ invm' = r.inv
    /\ flows' = [flows EXCEPT ![f] = [fl EXCEPT !.pc = "commit", !.pairs = <<>>,
                                                !.cmkeys = r.cm.keys, !.exc = r.exc]]
    /\ UNCHANGED <<norm, taskctl, waiting_for, claimed_at, unclaimed, loaded, persisted, pending, cooldowns, now, cache, guild_on,
                   enabled_guilds, api_key, member_roles, edit_issued, sent, task, clock, timetil, ops>>

\* lines 99-104: one touched key is written (cleared when it is no longer
\* in memory), or, with none left, the lock is released
ImportCommit(f) ==
    LET fl == flows[f]
    IN
    /\ fl.kind = "import" /\ fl.pc = "commit"
    /\ IF fl.cmkeys = {}
       THEN /\ users_lock' = FALSE
            /\ Finish(f, fl, IF fl.exc # "" THEN fl.exc ELSE "Imported")
            /\ UNCHANGED persisted
       ELSE \E key \in fl.cmkeys :
            /\ persisted' = IF key \notin DOMAIN fwdm THEN DictDel(persisted, key)
                            ELSE DictSet(persisted, key, fwdm[key])
            /\ flows' = [flows EXCEPT ![f].cmkeys = @ \ {key}]
            /\ UNCHANGED <<users_lock, sent>>
    /\ UNCHANGED <<norm, taskctl, waiting_for, claimed_at, unclaimed, fwdm, invm, loaded, pending, cooldowns, now, cache, guild_on,
                   enabled_guilds, api_key, member_roles, edit_issued, task, clock, timetil, ops>>

(***************************************************************************)
(* _set_toggle (lines 482-494).                                            *)
(***************************************************************************)
SetToggle(guild, true_false) ==
    LET on == IF true_false = "None" THEN guild_on[guild] ELSE true_false = "True"
    IN
    /\ loaded
    /\ registered
    /\ ops > 0
    /\ ~unloaded
    /\ ops' = ops - 1
    /\ guild_on' = [guild_on EXCEPT ![guild] = on]
    /\ enabled_guilds' = IF on THEN enabled_guilds \cup {guild} ELSE enabled_guilds \ {guild}
    /\ UNCHANGED <<norm, taskctl, waiting_for, claimed_at, unclaimed, fwdm, invm, loaded, persisted, pending, users_lock, cooldowns, now,
                   cache, api_key, member_roles, edit_issued, flows, sent, task, clock, timetil>>

(***************************************************************************)
(* on_member_join (lines 496-543).                                         *)
(***************************************************************************)
\* the servers of line 506, whose newcomers are greeted
GreetGuilds == {"g1"}

\* lines 499-514: the member arrives; with a nation their roles are set
\* (_add_roles with as_user=False), without one they may be greeted
MemberJoin(f, user, guild, forbidden) ==
    LET fl == [Idle EXCEPT !.kind = "join", !.member = user]
        joined == [member_roles EXCEPT ![guild] = DictSet(@, user, {})]
        rs == role_set(cache, fwdm, guild, user, {})
    IN
    /\ loaded /\ Free(f)
    /\ user \notin DOMAIN member_roles[guild]
    /\ IF guild \notin enabled_guilds
       THEN /\ ~forbidden /\ member_roles' = joined
            /\ Finish(f, fl, "Disabled") /\ UNCHANGED edit_issued
       ELSE IF user \in DOMAIN fwdm
       THEN IF ~guild_on[guild]
            THEN /\ ~forbidden /\ member_roles' = joined
                 /\ Finish(f, fl, "Joined") /\ UNCHANGED edit_issued
            ELSE IF rs.exc # ""
            THEN /\ ~forbidden /\ member_roles' = joined
                 /\ Finish(f, fl, rs.exc) /\ UNCHANGED edit_issued
            ELSE IF ~rs.edit
            THEN /\ ~forbidden /\ member_roles' = joined
                 /\ Finish(f, fl, "Joined") /\ edit_issued' = FALSE
            ELSE IF forbidden
            THEN /\ member_roles' = joined
                 /\ Finish(f, fl, "Forbidden") /\ edit_issued' = TRUE
            ELSE /\ member_roles' = [joined EXCEPT ![guild][user] = rs.roles]
                 /\ Finish(f, fl, "Joined") /\ edit_issued' = TRUE
       ELSE IF guild \notin GreetGuilds
       THEN /\ ~forbidden /\ member_roles' = joined
            /\ Finish(f, fl, "NotGreeted") /\ UNCHANGED edit_issued
       ELSE /\ ~forbidden /\ member_roles' = joined
            /\ flows' = [flows EXCEPT ![f] = [fl EXCEPT !.pc = "greet"]]
            /\ UNCHANGED <<edit_issued, sent>>
    /\ UNCHANGED <<norm, taskctl, waiting_for, claimed_at, unclaimed, fwdm, invm, loaded, persisted, pending, users_lock, cooldowns, now,
                   cache, guild_on, enabled_guilds, api_key, task, clock, timetil>>

\* lines 514-520: after the second's sleep the cooldown is dropped and the
\* question asked
JoinGreet(f) ==
    /\ flows[f].kind = "join" /\ flows[f].pc = "greet"
    /\ cooldowns' = DictDel(cooldowns, flows[f].member)
    /\ flows' = [flows EXCEPT ![f].pc = "answer"]
    /\ UNCHANGED <<norm, taskctl, waiting_for, claimed_at, unclaimed, fwdm, invm, loaded, persisted, pending, users_lock, now, cache,
                   guild_on, enabled_guilds, api_key, member_roles, edit_issued, sent, task, clock, timetil, ops>>

\* what self.recheck lets through: a nationstates.net/nation= link
JoinInputs == {[tag |-> "Nation", name |-> <<"T", "L">>]}

\* lines 542-543: the newcomer posts a link and set_nation runs for them
JoinAnswer(f, inp) ==
    /\ flows[f].kind = "join" /\ flows[f].pc = "answer"
    /\ set_nation_begin(f, "claim", flows[f].member, inp, FALSE)
    /\ UNCHANGED <<norm, taskctl, waiting_for, claimed_at, loaded, persisted, users_lock, now, cache, guild_on, enabled_guilds,
                   api_key, member_roles, edit_issued, task, clock, timetil, ops>>


(***************************************************************************)
(* Feed aggregators (lines 639-770).  Each takes the scratch cache and     *)
(* what its feed answered, and gives the scratch cache and the exception   *)
(* it raised ("" for none).                                                *)
(***************************************************************************)
TL == nid(<<"T", "L">>)
OL == nid(<<"O", " ", "L">>)

Agg(lc, exc) == [lc |-> lc, exc |-> exc]

\* localcache.setdefault(k, set()).update(titles) for every k of keys
AddTitles(lc, keys, titles) ==
    [k \in (DOMAIN lc) \cup keys |->
        (IF k \in DOMAIN lc THEN lc[k] ELSE {}) \cup (IF k \in keys THEN titles ELSE {})]

\* the table of lines 642-651
powers(c) ==
    CASE c = "X" -> "Executive Officer"
      [] c = "S" -> "Successor"
      [] c = "W" -> "World Assembly Officer"
      [] c = "A" -> "Appearance Officer"
      [] c = "B" -> "Border Control Officer"
      [] c = "C" -> "Communications Officer"
      [] c = "E" -> "Embassies Officer"
      [] c = "P" -> "Polls Officer"

PowerLetters == {"X", "S", "W", "A", "B", "C", "E", "P"}

NoDelegate == <<"0">>

RegionFeeds ==
    {[nations |-> {TL}, unnations |-> {TL}, delegate |-> TL,
      delegateauth |-> <<"X", "W">>, officers |-> <<>>],
     [nations |-> {}, unnations |-> {}, delegate |-> NoDelegate,
      delegateauth |-> <<>>, officers |-> <<[nation |-> OL, authority |-> <<"B">>]>>]}

RECURSIVE Officers(_, _)
\* lines 670-673
Officers(lc, q) ==
    IF q = <<>> THEN lc
    ELSE Officers(AddTitles(lc, {Head(q).nation},
                            {powers(c) : c \in SeqToSet(Head(q).authority)}), Tail(q))

\* _task_region, lines 639-673
task_region(lc, feed) ==
    LET l1 == AddTitles(lc, {ALL}, {"residents", "wa residents"}
                                       \cup {powers(c) : c \in PowerLetters})
        l2 == AddTitles(l1, feed.nations, {"residents"})
        l3 == AddTitles(l2, feed.unnations, {"wa residents"})
        l4 == IF feed.delegate # NoDelegate
              THEN AddTitles(l3, {feed.delegate},
                             {powers(c) : c \in SeqToSet(feed.delegateauth)})
              ELSE l3
    IN  IF \E c \in SeqToSet(feed.delegateauth) : c \notin PowerLetters
        THEN Agg(l3, "KeyError")
        ELSE IF \E i \in DOMAIN feed.officers :
                    \E c \in SeqToSet(feed.officers[i].authority) : c \notin PowerLetters
        THEN Agg(l4, "KeyError")
        ELSE Agg(Officers(l4, feed.officers), "")

\* a spreadsheet column: the error envelope, or the sheet title and values
SheetFeeds ==
    {[error |-> TRUE, title |-> "", values |-> <<>>],
     [error |-> FALSE, title |-> "Citizens", values |-> <<<<"T", "L">>>>]}

\* lines 689-694 and 710-715: the title goes to ALL and to every nation
SheetColumn(lc, feed, title) ==
    LET keys == {nid(feed.values[i]) : i \in DOMAIN feed.values}
    IN  IF feed.error THEN Agg(lc, "SheetsError")
        ELSE IF TypeError \in keys THEN Agg(AddTitles(lc, {ALL}, {title}), "TypeError")
        ELSE Agg(AddTitles(AddTitles(lc, {ALL}, {title}), keys, {title}), "")

\* _task_citizenship, lines 675-694: the title is the sheet's name
task_citizenship(lc, feed) == SheetColumn(lc, feed, feed.title)

\* _task_army, lines 696-715
task_army(lc, feed) == SheetColumn(lc, feed, "NPA Soldiers")

\* the government workbook: the error envelope, or per visible sheet its
\* title and rows; a row is <<title>> or <<title, nation>>
GovFeeds ==
    {[error |-> TRUE, ranges |-> <<>>],
     [error |-> FALSE,
      ranges |-> <<[title |-> "Executive",
                    values |-> <<<<"Delegate", <<"T", "L">>>>, <<"Defense">>>>]>>]}

\* tnid, lines 44-49, for rows of one or two fields: (nation key, title)
tnid(row) ==
    IF Len(row) = 1 THEN <<NoNation, row[1]>> ELSE <<nid(row[Len(row)]), row[1]>>

\* "Minister of " + title
MinisterOf(title) == IF title = "Defense" THEN "Minister of Defense" ELSE title

RECURSIVE GovRows(_, _, _, _)
\* lines 752-758
GovRows(lc, sheettitle, rows, executive) ==
    IF rows = <<>> THEN Agg(lc, "")
    ELSE LET p == tnid(Head(rows))
             title == IF executive THEN MinisterOf(p[2]) ELSE p[2]
         IN  IF p[1] = TypeError THEN Agg(lc, "TypeError")
             ELSE GovRows(AddTitles(AddTitles(lc, {p[1]}, {sheettitle, title}), {ALL}, {title}),
                          sheettitle, Tail(rows),
                          executive \/ str_lower(title) = "delegate")

RECURSIVE GovRanges(_, _)
\* lines 748-751
GovRanges(a, ranges) ==
    IF ranges = <<>> \/ a.exc # "" THEN a
    ELSE GovRanges(GovRows(AddTitles(a.lc, {ALL}, {Head(ranges).title}),
                           Head(ranges).title, Head(ranges).values, FALSE),
                   Tail(ranges))

\* _task_government, lines 717-758
task_government(lc, feed) ==
    IF feed.error THEN Agg(lc, "SheetsError") ELSE GovRanges(Agg(lc, ""), feed.ranges)

\* the nations of the world feed
WorldFeeds == {{TL, OL}, {TL}}

\* "visitors" added to every nation of the feed
sub_task_world_add(lc, feed) == AddTitles(AddTitles(lc, {ALL}, {"visitors"}), feed, {"visitors"})

\* _sub_task_world, lines 760-770: setdefault gives "visitors" only to a
\* nation with no entry yet
sub_task_world(lc, feed) ==
    LET l1 == AddTitles(lc, {ALL}, {"visitors"})
    IN  [k \in (DOMAIN l1) \cup feed |-> IF k \in DOMAIN l1 THEN l1[k] ELSE {"visitors"}]

\* lines 619-624: the None key is dropped and every title lower-cased
CommitCache(lc) ==
    LET l1 == DictDel(lc, NoNation)
    IN  [k \in DOMAIN l1 |-> {str_lower(t) : t \in l1[k]}]


\* lines 598-624: the caches a cycle commits when no aggregator raises
CycleCaches ==
    {CommitCache(sub_task_world(
         task_region(task_government(task_citizenship(task_army(
             DictSet(EmptyDict, ALL, {"ex-nation"}), af).lc, cf).lc, gf).lc, rf).lc, wf)) :
        rf \in RegionFeeds, cf \in {x \in SheetFeeds : ~x.error},
        af \in {x \in SheetFeeds : ~x.error}, gf \in {x \in GovFeeds : ~x.error},
        wf \in WorldFeeds}

(***************************************************************************)
(* The refresh task, _task (lines 589-637), with _wait_for (575-587) and   *)
(* _role_task (772-789).                                                   *)
(***************************************************************************)
PERIOD == 43200

\* the clock covers ClockPeriods periods
ClockPeriods == 2

SleepTime_NoSkip(t) == PERIOD - (t % PERIOD)

\* lines 631-634: the seconds to the next 12-hour mark, or to the one
\* after it when less than a quarter period is left
SleepTime(t) ==
    LET til == PERIOD - (t % PERIOD)
    IN  IF 4 * til < PERIOD THEN til + PERIOD ELSE til

\* cb: the done callback of the task (line 163) has run
TaskAt(pc) ==
    [pc |-> pc, localcache |-> EmptyDict, todo |-> <<>>, exc |-> "", cb |-> FALSE]

TaskDied(exc) ==
    [pc |-> "failed", localcache |-> EmptyDict, todo |-> <<>>, exc |-> exc, cb |-> FALSE]

\* the task is done: it raised, it was cancelled, or its loop test failed
Ended == {"failed", "cancelled", "finished"}

\* the positions inside _wait_for (line 581)
Waits == {"suspended", "sleeping"}

\* no task has been replaced yet
NoTask == TaskAt("none")

\* line 590: self is the cog the bot has registered under its name
IsRegistered_Always == TRUE

IsRegistered == registered /\ ~unloaded

\* lines 590-597: the loop test, the fresh scratch cache, the credential
TaskLoop ==
    /\ task.pc = "loop"
    /\ ~must_cancel
    /\ task' = IF ~IsRegistered THEN TaskAt("finished")
               ELSE IF ~api_key THEN TaskAt("suspended")
               ELSE [TaskAt("primary") EXCEPT !.localcache = DictSet(EmptyDict, ALL, {"ex-nation"})]
    /\ waiting_for' = IF IsRegistered /\ ~api_key THEN "pending" ELSE waiting_for
    /\ unclaimed' = IF IsRegistered /\ api_key THEN [u \in DOMAIN unclaimed |-> "cycle"]
                     ELSE unclaimed
    /\ UNCHANGED <<norm, taskctl, claimed_at, fwdm, invm, loaded, persisted, pending, users_lock, cooldowns, now,
                   cache, guild_on, enabled_guilds, api_key, member_roles, edit_issued,
                   flows, sent, clock, timetil, ops>>

\* the aggregators writing to self.cache instead of the scratch cache
TaskPrimary_Live(rf, cf, af, gf) ==
    LET a4 == task_region(task_government(task_citizenship(task_army(
                  task.localcache, af).lc, cf).lc, gf).lc, rf)
    IN
    /\ task.pc = "primary"
    /\ ~must_cancel
    /\ cache' = CommitCache(a4.lc)
    /\ task' = IF a4.exc # "" THEN TaskDied(a4.exc)
               ELSE [task EXCEPT !.pc = "supplementary", !.localcache = a4.lc]
    /\ UNCHANGED <<norm, taskctl, waiting_for, claimed_at, unclaimed, fwdm, invm, loaded, persisted, pending,
                   users_lock, cooldowns, now, guild_on, enabled_guilds, api_key,
                   member_roles, edit_issued, flows, sent, clock, timetil, ops>>

\* lines 601-609: the gather of the _task_ aggregators; the first
\* exception ends the task
TaskPrimary(rf, cf, af, gf) ==
    LET a1 == task_army(task.localcache, af)
        a2 == task_citizenship(a1.lc, cf)
        a3 == task_government(a2.lc, gf)
        a4 == task_region(a3.lc, rf)
        excs == {a.exc : a \in {a1, a2, a3, a4}} \ {""}
    IN
    /\ task.pc = "primary"
    /\ ~must_cancel
    /\ task' = IF excs # {} THEN TaskDied(CHOOSE e \in excs : TRUE)
               ELSE [task EXCEPT !.pc = "supplementary", !.localcache = a4.lc]
    /\ UNCHANGED <<norm, taskctl, waiting_for, claimed_at, unclaimed, fwdm, invm, loaded, persisted, pending, users_lock, cooldowns, now,
                   cache, guild_on, enabled_guilds, api_key, member_roles, edit_issued,
                   flows, sent, clock, timetil, ops>>

\* the members _role_task goes through: every member of every guild
\* whose flag is on, guild by guild
\* guild.members, in order
UserSeq == <<"u1", "u2">>

RECURSIVE RoleTaskList(_)
RoleTaskList(gs) ==
    IF gs = <<>> THEN <<>>
    ELSE LET g == Head(gs)
             ms == SelectSeq(UserSeq, LAMBDA u : u \in DOMAIN member_roles[g])
         IN  [i \in DOMAIN ms |-> <<g, ms[i]>>] \o RoleTaskList(Tail(gs))

\* lines 610-628: the gather of the _sub_task_ aggregators, the commit of
\* the scratch cache, and the start of _role_task
TaskSupplementary(wf, ok) ==
    /\ task.pc = "supplementary"
    /\ ~must_cancel
    /\ IF ~ok
       THEN task' = TaskDied("HTTPException") /\ UNCHANGED cache
       ELSE /\ cache' = CommitCache(sub_task_world(task.localcache, wf))
            /\ task' = [TaskAt("reconcile") EXCEPT
                           !.todo = RoleTaskList(SelectSeq(GuildSeq, LAMBDA g : guild_on[g]))]
    /\ UNCHANGED <<norm, taskctl, waiting_for, claimed_at, unclaimed, fwdm, invm, loaded, persisted, pending, users_lock, cooldowns, now,
                   guild_on, enabled_guilds, api_key, member_roles, edit_issued,
                   flows, sent, clock, timetil, ops>>

\* lines 781-789: the next member with a nation; discord.Forbidden from
\* member.edit is no RuntimeError, so it is not retried and ends the task
TaskReconcile(forbidden) ==
    LET g  == Head(task.todo)[1]
        u  == Head(task.todo)[2]
        rs == role_set(cache, fwdm, g, u, member_roles[g][u])
    IN
    /\ task.pc = "reconcile" /\ task.todo # <<>>
    /\ ~must_cancel
    /\ IF u \notin DOMAIN member_roles[g] \/ u \notin DOMAIN fwdm
       THEN /\ ~forbidden
            /\ task' = [task EXCEPT !.todo = Tail(@)]
            /\ UNCHANGED <<member_roles, edit_issued>>
       ELSE IF rs.exc # ""
       THEN /\ ~forbidden
            /\ task' = TaskDied(rs.exc)
            /\ UNCHANGED <<member_roles, edit_issued>>
       ELSE IF ~rs.edit
       THEN /\ ~forbidden
            /\ edit_issued' = FALSE
            /\ task' = [task EXCEPT !.todo = Tail(@)]
            /\ UNCHANGED member_roles
       ELSE IF forbidden
       THEN /\ edit_issued' = TRUE
            /\ task' = TaskDied("Forbidden")
            /\ UNCHANGED member_roles
       ELSE /\ edit_issued' = TRUE
            /\ member_roles' = [member_roles EXCEPT ![g][u] = rs.roles]
            /\ task' = [task EXCEPT !.todo = Tail(@)]
    /\ UNCHANGED <<norm, taskctl, waiting_for, claimed_at, unclaimed, fwdm, invm, loaded, persisted, pending, users_lock, cooldowns, now,
                   cache, guild_on, enabled_guilds, api_key, flows, sent, clock, timetil, ops>>

\* lines 630-636: the reconciliation is over and the task goes to sleep
TaskSleep ==
    /\ task.pc = "reconcile" /\ task.todo = <<>>
    /\ ~must_cancel
    /\ task' = TaskAt("sleeping")
    /\ timetil' = SleepTime(clock)
    /\ waiting_for' = "pending"
    /\ unclaimed' = [u \in {v \in DOMAIN unclaimed : unclaimed[v] # "cycle"} |-> unclaimed[u]]
    /\ UNCHANGED <<norm, taskctl, claimed_at, fwdm, invm, loaded, persisted, pending, users_lock, cooldowns, now,
                   cache, guild_on, enabled_guilds, api_key, member_roles, edit_issued,
                   flows, sent, clock, ops>>

\* line 636-637: the sleep is over, timetil seconds later; the clock is
\* kept modulo ClockPeriods periods, which the computation cannot tell apart
TaskWake ==
    /\ task.pc = "sleeping"
    /\ ~must_cancel
    /\ waiting_for = "pending"
    /\ task' = TaskAt("loop")
    /\ waiting_for' = "None"
    /\ clock' = (clock + timetil) % (ClockPeriods * PERIOD)
    /\ UNCHANGED <<norm, taskctl, claimed_at, unclaimed, fwdm, invm, loaded, persisted, pending, users_lock, cooldowns, now,
                   cache, guild_on, enabled_guilds, api_key, member_roles, edit_issued,
                   flows, sent, timetil, ops>>

\* _identify_task with run=True (lines 275-292): the future a live task
\* waits for is cancelled; a task that is done or running is left alone
IdentifyTaskRun ==
    /\ loaded
    /\ registered
    /\ ops > 0
    /\ ~unloaded
    /\ ops' = ops - 1
    /\ waiting_for' = IF task.pc \notin Ended /\ waiting_for = "pending" THEN "cancelled"
                      ELSE waiting_for
    /\ UNCHANGED <<norm, taskctl, claimed_at, unclaimed, fwdm, invm, loaded, persisted, pending, users_lock,
                   cooldowns, now, cache, guild_on, enabled_guilds, api_key, member_roles,
                   edit_issued, flows, sent, task, clock, timetil>>

\* _wait_for, lines 580-587, when the future it shields was cancelled and
\* the task itself was not: the CancelledError is swallowed and the caller
\* goes back to the loop test
\* the CancelledError of a cancelled future ending the task
TaskResume_Ends ==
    /\ task.pc \in Waits
    /\ ~must_cancel
    /\ waiting_for = "cancelled"
    /\ task' = TaskAt("cancelled")
    /\ UNCHANGED <<norm, taskctl, waiting_for, claimed_at, unclaimed, fwdm, invm, loaded, persisted, pending,
                   users_lock, cooldowns, now, cache, guild_on, enabled_guilds, api_key,
                   member_roles, edit_issued, flows, sent, clock, timetil, ops>>

TaskResume ==
    /\ task.pc \in Waits
    /\ ~must_cancel
    /\ waiting_for = "cancelled"
    /\ task' = TaskAt("loop")
    /\ waiting_for' = "None"
    /\ UNCHANGED <<norm, taskctl, claimed_at, unclaimed, fwdm, invm, loaded, persisted, pending, users_lock,
                   cooldowns, now, cache, guild_on, enabled_guilds, api_key, member_roles,
                   edit_issued, flows, sent, clock, timetil, ops>>

\* A CancelledError thrown into a task at position t.pc, self.waiting_for
\* being wf.  Inside _wait_for (lines 582-586) the handler asks
\* self.waiting_for.cancelled(): None has no such attribute, a cancelled
\* future makes it swallow the error, a pending one is cancelled and the
\* error raised again.  Anywhere else nothing catches the error.
Cancelled(t, wf) ==
    IF t.pc \in Waits
    THEN IF wf = "None" THEN [task |-> TaskDied("AttributeError"), wf |-> wf]
         ELSE IF wf = "cancelled" THEN [task |-> TaskAt("loop"), wf |-> "None"]
         ELSE [task |-> TaskAt("cancelled"), wf |-> "cancelled"]
    ELSE [task |-> TaskAt("cancelled"), wf |-> wf]

\* the task resumes after self.task.cancel()
TaskCancelled ==
    /\ must_cancel
    /\ task.pc \notin Ended
    /\ task' = Cancelled(task, waiting_for).task
    /\ waiting_for' = Cancelled(task, waiting_for).wf
    /\ must_cancel' = FALSE
    /\ UNCHANGED <<norm, claimed_at, unclaimed, fwdm, invm, loaded, persisted, pending, users_lock, cooldowns,
                   now, cache, guild_on, enabled_guilds, api_key, member_roles, edit_issued,
                   flows, sent, clock, timetil, ops, registered, unloaded, old_task, owner_sent>>

\* _restart_task, lines 314-320: the task is cancelled and replaced, and
\* self.waiting_for is reset before the cancelled task resumes
RestartTask ==
    /\ loaded
    /\ registered
    /\ ops > 0
    /\ ~unloaded
    /\ ops' = ops - 1
    /\ old_task.pc = "none" \/ (old_task.pc \in Ended /\ old_task.cb)
    /\ old_task' = task
    /\ task' = TaskAt("loop")
    /\ must_cancel' = FALSE
    /\ waiting_for' = "None"
    /\ UNCHANGED <<norm, claimed_at, unclaimed, fwdm, invm, loaded, persisted, pending, users_lock, cooldowns,
                   now, cache, guild_on, enabled_guilds, api_key, member_roles, edit_issued,
                   flows, sent, clock, timetil, registered, unloaded, owner_sent>>

\* the replaced task resumes with the CancelledError; it is scheduled
\* before the first step of its successor, so self.waiting_for is still
\* the None that line 319 left
OldCancelled ==
    /\ old_task.pc \notin Ended \cup {"none"}
    /\ old_task' = Cancelled(old_task, "None").task
    /\ UNCHANGED <<norm, claimed_at, unclaimed, fwdm, invm, loaded, persisted, pending, users_lock, cooldowns,
                   now, cache, guild_on, enabled_guilds, api_key, member_roles, edit_issued,
                   flows, sent, task, clock, timetil, ops, registered, unloaded, waiting_for, must_cancel,
                   owner_sent>>

\* __unload, lines 545-550, as cog_unload: the cog is no longer registered
\* and its task is cancelled
Unload ==
    /\ loaded
    /\ registered
    /\ ~unloaded
    /\ unloaded' = TRUE
    /\ must_cancel' = (task.pc \notin Ended)
    /\ UNCHANGED <<norm, claimed_at, unclaimed, fwdm, invm, loaded, persisted, pending, users_lock, cooldowns,
                   now, cache, guild_on, enabled_guilds, api_key, member_roles, edit_issued,
                   flows, sent, task, clock, timetil, ops, registered, waiting_for, old_task,
                   owner_sent>>

\* _callback, lines 166-187, for a task that is done: a cancelled task and
\* a task that returned are only logged, an exception is sent to the owners
CallbackReport(t) ==
    IF t.pc = "failed" THEN Append(owner_sent, t.exc) ELSE owner_sent

TaskCallback ==
    /\ task.pc \in Ended /\ ~task.cb
    /\ task' = [task EXCEPT !.cb = TRUE]
    /\ owner_sent' = CallbackReport(task)
    /\ UNCHANGED <<norm, claimed_at, unclaimed, fwdm, invm, loaded, persisted, pending, users_lock, cooldowns,
                   now, cache, guild_on, enabled_guilds, api_key, member_roles, edit_issued,
                   flows, sent, clock, timetil, ops, registered, unloaded, waiting_for, must_cancel, old_task>>

OldCallback ==
    /\ old_task.pc \in Ended /\ ~old_task.cb
    /\ old_task' = [old_task EXCEPT !.cb = TRUE]
    /\ owner_sent' = CallbackReport(old_task)
    /\ UNCHANGED <<norm, claimed_at, unclaimed, fwdm, invm, loaded, persisted, pending, users_lock, cooldowns,
                   now, cache, guild_on, enabled_guilds, api_key, member_roles, edit_issued,
                   flows, sent, task, clock, timetil, ops, registered, unloaded, waiting_for, must_cancel>>

(***************************************************************************)
(* Start-up (lines 71-85 and 192-198), the configuration store and the     *)
(* clock.                                                                  *)
(***************************************************************************)
Orders(S) == {q \in [1 .. Cardinality(S) -> S] : \A i, j \in DOMAIN q : i # j => q[i] # q[j]}

RECURSIVE LoadAll(_, _, _)
\* lines 76-85: a ValueDuplicationError is logged and the pair discarded
LoadAll(b, all_users, order) ==
    IF order = <<>> THEN b
    ELSE LoadAll(BidictPut(b, Head(order), all_users[Head(order)]), all_users, Tail(order))

Initialize(order) ==
    LET b == LoadAll([fwd |-> EmptyDict, inv |-> EmptyDict, exc |-> ""], persisted, order)
    IN
    /\ ~loaded
    /\ loaded' = TRUE
    /\ fwdm' = b.fwd /\ invm' = b.inv
    /\ enabled_guilds' = {g \in Guilds : guild_on[g]}
    /\ UNCHANGED <<norm, taskctl, waiting_for, claimed_at, unclaimed, persisted, pending, users_lock, cooldowns, now, cache, guild_on, api_key,
                   member_roles, edit_issued, flows, sent, task, clock, timetil, ops>>

\* setup, __init__.py line 24: bot.add_cog(cog), after cog.initialize()
AddCog ==
    /\ loaded
    /\ ~registered
    /\ registered' = TRUE
    /\ UNCHANGED <<norm, waiting_for, claimed_at, unclaimed, fwdm, invm, loaded, persisted, pending,
                   users_lock, cooldowns, now, cache, guild_on, enabled_guilds, api_key,
                   member_roles, edit_issued, flows, sent, task, clock, timetil, ops,
                   unloaded, must_cancel, old_task, owner_sent>>

\* a write scheduled with ensure_future reaches the configuration store
ConfigWrite ==
    /\ pending # <<>>
    /\ persisted' = IF Head(pending).value = NoNation
                    THEN DictDel(persisted, Head(pending).user)
                    ELSE DictSet(persisted, Head(pending).user, Head(pending).value)
    /\ pending' = Tail(pending)
    /\ UNCHANGED <<norm, taskctl, waiting_for, claimed_at, unclaimed, fwdm, invm, loaded, users_lock, cooldowns, now, cache, guild_on,
                   enabled_guilds, api_key, member_roles, edit_issued, flows, sent, task,
                   clock, timetil, ops>>

Tick ==
    /\ now < MaxTime
    /\ now' = now + 1
    /\ UNCHANGED <<norm, taskctl, waiting_for, claimed_at, unclaimed, fwdm, invm, loaded, persisted, pending, users_lock, cooldowns, cache,
                   guild_on, enabled_guilds, api_key, member_roles, edit_issued, flows,
                   sent, task, clock, timetil, ops>>

(***************************************************************************)
(* The system.                                                             *)
(***************************************************************************)
\* what the configuration store may hold when the cog is constructed
InitialPersisted ==
    {EmptyDict, DictSet(EmptyDict, "u1", TL), DictSet(DictSet(EmptyDict, "u1", TL), "u2", TL)}

InitialRoles ==
    [g \in Guilds |->
        IF g = "g1" THEN DictSet(EmptyDict, "u1", {"Moderator"})
        ELSE DictSet(DictSet(EmptyDict, "u1", {"Visitors"}), "u2", {"Moderator"})]

NoReport == [kind |-> "none", outcome |-> ""]

\* no name is on its way through the normaliser
NoName == [raw |-> <<>>, key |-> Unset, shown |-> Unset, again |-> Unset]

\* the state after construction (lines 143-164), but for the configuration
\* store, the cache of titles, the number of handlers that can be in flight
\* and how far the setup has come, which each specification states
InitBase ==
    /\ fwdm = EmptyDict /\ invm = EmptyDict
    /\ pending = <<>>
    /\ users_lock = FALSE
    /\ cooldowns = EmptyDict
    /\ claimed_at = EmptyDict
    /\ unclaimed = EmptyDict
    /\ unloaded = FALSE
    /\ waiting_for = "None"
    /\ must_cancel = FALSE
    /\ old_task = NoTask
    /\ owner_sent = <<>>
    /\ norm = NoName
    /\ now = 0
    /\ enabled_guilds = {}
    /\ member_roles = InitialRoles
    /\ edit_issued = FALSE
    /\ sent = NoReport
    /\ timetil = 0

\* the handlers of the claim workflow: identify, identify set and the
\* steps of set_nation
ClaimHandlers ==
    \/ \E f \in DOMAIN flows, u \in Users, inp \in ClaimInputs : IdentifyNation(f, u, inp)
    \/ \E f \in DOMAIN flows, a \in Users, m \in Users \cup {NoUser}, inp \in ClaimInputs :
          IdentifySet(f, a, m, inp)
    \/ \E f \in DOMAIN flows, answer \in BOOLEAN : SetNationConfirm(f, answer)
    \/ \E f \in DOMAIN flows, api \in ApiOutcomes : SetNationVerify(f, api)
    \/ \E f \in DOMAIN flows, forbidden \in BOOLEAN : SetNationRoles(f, forbidden)

\* identify remove and the data deletion
RemovalHandlers ==
    \/ \E f \in DOMAIN flows, u \in Users : IdentifyRemove(f, u)
    \/ \E f \in DOMAIN flows, u \in Users, r \in Requesters : DeleteData(f, u, r)
    \/ \E f \in DOMAIN flows, forbidden \in BOOLEAN : StripRoles(f, forbidden)

ImportHandlers ==
    \/ \E f \in DOMAIN flows, nd \in ImportNations, sd \in ImportServers : ImportStart(f, nd, sd)
    \/ \E f \in DOMAIN flows : ImportLoad(f)
    \/ \E f \in DOMAIN flows : ImportCommit(f)

JoinHandlers ==
    \/ \E f \in DOMAIN flows, u \in Users, g \in Guilds, forbidden \in BOOLEAN :
          MemberJoin(f, u, g, forbidden)
    \/ \E f \in DOMAIN flows : JoinGreet(f)
    \/ \E f \in DOMAIN flows, inp \in JoinInputs : JoinAnswer(f, inp)

\* the refresh task
TaskSteps ==
    \/ TaskLoop
    \/ \E rf \in RegionFeeds, cf \in SheetFeeds, af \in SheetFeeds, gf \in GovFeeds :
          TaskPrimary(rf, cf, af, gf)
    \/ \E wf \in WorldFeeds, ok \in BOOLEAN : TaskSupplementary(wf, ok)
    \/ \E forbidden \in BOOLEAN : TaskReconcile(forbidden)
    \/ TaskSleep
    \/ TaskWake

\* setup, __init__.py lines 22-26, after the construction: the store is
\* initialized, then the cog is registered
Startup ==
    \/ \E order \in Orders(DOMAIN persisted) : Initialize(order)
    \/ AddCog

(***************************************************************************)
(* The identity store: every operation on the mapping, with up to MaxFlows *)
(* handlers in flight.  Autoroles are off in every guild, the clock stands *)
(* and the refresh task does not run.                                      *)
(***************************************************************************)
Init ==
    /\ InitBase
    /\ loaded = FALSE
    /\ registered = FALSE
    /\ task = TaskAt("loop")
    /\ clock = 0
    /\ persisted \in InitialPersisted
    /\ cache \in {EmptyDict} \cup CycleCaches
    /\ guild_on = [g \in Guilds |-> FALSE]
    /\ api_key = TRUE
    /\ flows = [f \in FlowIds |-> Idle]
    /\ ops = MaxOps

Next ==
    \/ Startup
    \/ ConfigWrite
    \/ ClaimHandlers
    \/ RemovalHandlers
    \/ ImportHandlers

Spec == Init /\ [][Next]_vars

(***************************************************************************)
(* The claim workflow and its cooldown: one handler at a time, the clock   *)
(* runs, members join.                                                     *)
(***************************************************************************)
InitCooldown ==
    /\ InitBase
    /\ loaded = FALSE
    /\ registered = FALSE
    /\ task = TaskAt("loop")
    /\ clock = 0
    /\ persisted \in InitialPersisted
    /\ cache \in {c \in CycleCaches : OL \in DOMAIN c /\ "residents" \in c[TL]}
    /\ guild_on = [g \in Guilds |-> g \in GreetGuilds]
    /\ api_key = TRUE
    /\ flows = [f \in {1} |-> Idle]
    /\ ops = CooldownOps

NextCooldown ==
    \/ Startup
    \/ ConfigWrite
    \/ Tick
    \/ ClaimHandlers
    \/ JoinHandlers

SpecCooldown == InitCooldown /\ [][NextCooldown]_vars

(***************************************************************************)
(* The roles: autoroles are on in every guild, the refresh task runs and   *)
(* the handlers that touch roles are received one at a time.               *)
(***************************************************************************)
InitRoles ==
    /\ InitBase
    /\ loaded = FALSE
    /\ registered = FALSE
    /\ task = TaskAt("loop")
    /\ clock = 0
    /\ persisted \in InitialPersisted
    /\ cache = EmptyDict
    /\ guild_on = [g \in Guilds |-> TRUE]
    /\ api_key = TRUE
    /\ flows = [f \in {1} |-> Idle]
    /\ ops = RolesOps

NextRoles ==
    \/ Startup
    \/ ConfigWrite
    \/ ClaimHandlers
    \/ RemovalHandlers
    \/ TaskSteps

SpecRoles == InitRoles /\ [][NextRoles]_vars

(***************************************************************************)
(* The sleep of the refresh task, from every second of ClockPeriods        *)
(* periods: the reconciliation is over, the task computes its sleep and    *)
(* wakes.                                                                  *)
(***************************************************************************)
InitSleep ==
    /\ InitBase
    /\ loaded = TRUE
    /\ registered = TRUE
    /\ task = TaskAt("reconcile")
    /\ clock \in 0 .. ClockPeriods * PERIOD - 1
    /\ persisted = EmptyDict
    /\ cache = EmptyDict
    /\ guild_on = [g \in Guilds |-> FALSE]
    /\ api_key = TRUE
    /\ flows = [f \in {1} |-> Idle]
    /\ ops = 0

NextSleep ==
    \/ TaskSleep
    \/ TaskWake

SpecSleep == InitSleep /\ [][NextSleep]_vars

(***************************************************************************)
(* The normaliser: a raw name of up to MaxName characters goes through     *)
(* nid, then, unless nid raised, through rnid and through nid again.       *)
(***************************************************************************)
\* the longest raw name
MaxName == 3

\* the characters raw names are made of
Chars == {"T", "o", "U+00DF", " ", "_", "-", "1", "!"}

RawInputs == UNION {[1 .. n -> Chars] : n \in 0 .. MaxName}

\* nid(raw), lines 33-37
Normalize ==
    /\ norm.key = Unset
    /\ norm' = [norm EXCEPT !.key = nid(norm.raw)]
    /\ UNCHANGED <<taskctl, waiting_for, claimed_at, unclaimed, fwdm, invm, loaded, persisted, pending,
                   users_lock, cooldowns, now, cache, guild_on, enabled_guilds, api_key,
                   member_roles, edit_issued, flows, sent, task, clock, timetil, ops>>

\* rnid of the key, lines 40-41
Display ==
    /\ norm.key \notin {Unset, TypeError} /\ norm.shown = Unset
    /\ norm' = [norm EXCEPT !.shown = rnid(norm.key)]
    /\ UNCHANGED <<taskctl, waiting_for, claimed_at, unclaimed, fwdm, invm, loaded, persisted, pending,
                   users_lock, cooldowns, now, cache, guild_on, enabled_guilds, api_key,
                   member_roles, edit_issued, flows, sent, task, clock, timetil, ops>>

\* nid of the displayed name
Renormalize ==
    /\ norm.shown # Unset /\ norm.again = Unset
    /\ norm' = [norm EXCEPT !.again = nid(norm.shown)]
    /\ UNCHANGED <<taskctl, waiting_for, claimed_at, unclaimed, fwdm, invm, loaded, persisted, pending,
                   users_lock, cooldowns, now, cache, guild_on, enabled_guilds, api_key,
                   member_roles, edit_issued, flows, sent, task, clock, timetil, ops>>

InitNormalize ==
    /\ fwdm = EmptyDict /\ invm = EmptyDict /\ pending = <<>> /\ users_lock = FALSE
    /\ cooldowns = EmptyDict /\ claimed_at = EmptyDict /\ now = 0 /\ enabled_guilds = {}
    /\ member_roles = InitialRoles /\ edit_issued = FALSE /\ sent = NoReport /\ timetil = 0
    /\ unloaded = FALSE /\ waiting_for = "None" /\ must_cancel = FALSE /\ old_task = NoTask
    /\ unclaimed = EmptyDict /\ registered = FALSE
    /\ owner_sent = <<>>
    /\ loaded = FALSE
    /\ task = TaskAt("loop")
    /\ clock = 0
    /\ persisted = EmptyDict
    /\ cache = EmptyDict
    /\ guild_on = [g \in Guilds |-> FALSE]
    /\ api_key = TRUE
    /\ flows = [f \in {1} |-> Idle]
    /\ ops = 0
    /\ norm \in {[NoName EXCEPT !.raw = r] : r \in RawInputs}

NextNormalize ==
    \/ Normalize
    \/ Display
    \/ Renormalize

SpecNormalize == InitNormalize /\ [][NextNormalize]_vars

(***************************************************************************)
(* The life cycle of the refresh task: the task runs its cycles with or    *)
(* without a credential, and the owner asks for a run, restarts the task   *)
(* or unloads the cog, at any position of the task.                        *)
(***************************************************************************)
\* the owner's commands received
TaskOps == 2

\* the owner's commands, the unload, and what the tasks do about them
TaskControl ==
    \/ IdentifyTaskRun
    \/ TaskResume
    \/ RestartTask
    \/ OldCancelled
    \/ Unload
    \/ TaskCancelled
    \/ TaskCallback
    \/ OldCallback

InitTask ==
    /\ InitBase
    /\ loaded = FALSE
    /\ registered = FALSE
    /\ task = TaskAt("loop")
    /\ clock = 0
    /\ persisted \in InitialPersisted
    /\ cache = EmptyDict
    /\ guild_on = [g \in Guilds |-> TRUE]
    /\ api_key \in BOOLEAN
    /\ flows = [f \in {1} |-> Idle]
    /\ ops = TaskOps

NextTask ==
    \/ Startup
    \/ TaskSteps
    \/ TaskControl

SpecTask == InitTask /\ [][NextTask]_vars

\* the event loop runs every task that is ready: a task whose future was
\* cancelled is resumed in _wait_for, and a task at the head of its loop
\* goes through the loop test and the credential check
SpecTaskLive == SpecTask /\ WF_vars(TaskResume) /\ WF_vars(TaskLoop)

(***************************************************************************)
(* The autorole flag: the guilds start with any flags, and the toggle and  *)
(* the legacy import are received one at a time.                           *)
(***************************************************************************)
\* the toggles and imports received
ToggleOps == 2

\* the argument of the toggle: absent, or a bool
ToggleInputs == {"None", "True", "False"}

InitToggle ==
    /\ InitBase
    /\ loaded = FALSE
    /\ registered = FALSE
    /\ task = TaskAt("loop")
    /\ clock = 0
    /\ persisted = EmptyDict
    /\ cache = EmptyDict
    /\ guild_on \in [Guilds -> BOOLEAN]
    /\ api_key = FALSE
    /\ flows = [f \in {1} |-> Idle]
    /\ ops = ToggleOps

NextToggle ==
    \/ Startup
    \/ \E g \in Guilds, true_false \in ToggleInputs : SetToggle(g, true_false)
    \/ ImportHandlers

SpecToggle == InitToggle /\ [][NextToggle]_vars

(***************************************************************************)
(* The identity store (C1, C2), under Spec.                                *)
(***************************************************************************)
\* C1: in every reachable state no two users hold the same nation, no two
\* nations are held by the same user, and the forward and the reverse view
\* agree: get(u) = n exactly when get_owner(n) = u.
C1_Bijective ==
    /\ \A u, v \in DOMAIN fwdm : fwdm[u] = fwdm[v] => u = v
    /\ \A n, m \in DOMAIN invm : invm[n] = invm[m] => n = m
    /\ \A u \in DOMAIN fwdm : fwdm[u] \in DOMAIN invm /\ invm[fwdm[u]] = u
    /\ \A n \in DOMAIN invm : invm[n] \in DOMAIN fwdm /\ fwdm[invm[n]] = n

\* two handlers are in flight over a store with an entry: an import that
\* holds the lock, and a claim about to set the nation of that entry for
\* another member
C1_Witness ==
    /\ fwdm # EmptyDict
    /\ \E f, g \in DOMAIN flows :
          /\ flows[f].pc = "verify" /\ flows[g].pc = "commit"
          /\ flows[f].nation \in DOMAIN invm
          /\ invm[flows[f].nation] # flows[f].member

\* the verified claim that flow f is about to commit: its lookup succeeds
VerifiedSet(f, api) == SetNationVerify(f, api) /\ api \notin {"NotFound", "HTTPException"}

\* C2: a set never fails and is an upsert: once the lookup has verified the
\* nation, the member owns it, the nation's owner is the member, nobody
\* else holds it, and the handler has not died; this includes the nation
\* that another user held.
C2_SetIsUpsert ==
    [][\A f \in DOMAIN flows, api \in ApiOutcomes :
          VerifiedSet(f, api) =>
              LET m == flows[f].member
                  n == flows[f].nation
              IN  /\ m \in DOMAIN fwdm' /\ fwdm'[m] = n
                  /\ n \in DOMAIN invm' /\ invm'[n] = m
                  /\ \A u \in DOMAIN fwdm' : fwdm'[u] = n => u = m
                  /\ flows'[f].pc = "roles"]_vars

(***************************************************************************)
(* The claim workflow and its cooldown (C4 to C7), under SpecCooldown.     *)
(***************************************************************************)
\* set_nation starts in slot f for `member`, called by `author` through
\* identify (author = member), identify set, or the answer of a newcomer
ClaimStart(f, author, member, inp) ==
    \/ ops' # ops /\ author = member /\ IdentifyNation(f, member, inp)
    \/ ops' # ops /\ IdentifySet(f, author, member, inp)
    \/ flows[f].pc = "answer" /\ author = member /\ flows[f].member = member
           /\ JoinAnswer(f, inp)

\* the nation is claimed by this member
Owns(member, nation) == nation \in DOMAIN invm /\ invm[nation] = member

\* the claim that starts in slot f is over at once, with this outcome
EndsWith(f, outcome) == flows'[f].pc = "idle" /\ sent'.outcome = outcome

\* the member claimed within the last hour, by the cooldown table
WithinCooldown(member) ==
    member \in DOMAIN cooldowns /\ now < cooldowns[member] + CooldownHours * TicksPerHour

\* no cooldown is stamped for the member: the entry is as it was, or gone
NotStamped(member) ==
    member \in DOMAIN cooldowns' =>
        member \in DOMAIN cooldowns /\ cooldowns'[member] = cooldowns[member]

\* C4, as stated: claiming the nation the target already owns, self-service
\* or third-party, changes neither the mapping nor the cooldown table nor
\* the title cache nor any role, calls no verification, and answers
\* "already claimed".
C4_OwnNationIdempotent ==
    [][\A f \in DOMAIN flows, a \in Users, m \in Users, inp \in ClaimInputs :
          Owns(m, ParsedNation(inp)) /\ ClaimStart(f, a, m, inp) =>
              /\ UNCHANGED <<fwdm, invm, cooldowns, cache, member_roles>>
              /\ EndsWith(f, "AlreadyClaimed")]_vars

\* C4, amended: the same holds of a third-party claim and of a self-service
\* claim outside the claimant's cooldown hour, but for the claimant's
\* expired cooldown entry, which is evicted; no cooldown is stamped.  A
\* self-service claim within the hour is answered with Cooldown.
C4_OwnNationIdempotentOutsideCooldown ==
    [][\A f \in DOMAIN flows, a \in Users, m \in Users, inp \in ClaimInputs :
          Owns(m, ParsedNation(inp)) /\ ClaimStart(f, a, m, inp) =>
              IF a = m /\ WithinCooldown(m)
              THEN /\ UNCHANGED <<fwdm, invm, cooldowns, cache, member_roles>>
                   /\ EndsWith(f, "Cooldown")
              ELSE /\ UNCHANGED <<fwdm, invm, cache, member_roles>>
                   /\ cooldowns' = IF a = m THEN DictDel(cooldowns, m) ELSE cooldowns
                   /\ EndsWith(f, "AlreadyClaimed")]_vars

\* a member who claimed their nation themselves claimed it again after the
\* hour: "already claimed", and their cooldown entry is gone
C4_Witness ==
    /\ sent.outcome = "AlreadyClaimed"
    /\ \E u \in DOMAIN claimed_at :
          /\ u \in DOMAIN fwdm /\ u \notin DOMAIN cooldowns
          /\ now >= claimed_at[u] + CooldownHours * TicksPerHour

\* C5, as stated: a self-service claim of a nation that another user owns
\* leaves the mapping unchanged, stamps no cooldown and reports the conflict.
C5_ConflictReported ==
    [][\A f \in DOMAIN flows, m \in Users, inp \in ClaimInputs :
          /\ ParsedNation(inp) \in DOMAIN invm /\ invm[ParsedNation(inp)] # m
          /\ ClaimStart(f, m, m, inp)
          => /\ UNCHANGED <<fwdm, invm>>
             /\ NotStamped(m)
             /\ EndsWith(f, "ClaimedByOther")]_vars

\* C5, amended: the mapping is unchanged and no cooldown is stamped; the
\* conflict is reported unless the claimant is within their cooldown hour,
\* and then Cooldown is reported.
C5_ConflictOrCooldown ==
    [][\A f \in DOMAIN flows, m \in Users, inp \in ClaimInputs :
          /\ ParsedNation(inp) \in DOMAIN invm /\ invm[ParsedNation(inp)] # m
          /\ ClaimStart(f, m, m, inp)
          => /\ UNCHANGED <<fwdm, invm>>
             /\ NotStamped(m)
             /\ EndsWith(f, IF WithinCooldown(m) THEN "Cooldown" ELSE "ClaimedByOther")]_vars

\* the conflict has been reported to a member whose own claim is more
\* than an hour old, while the owner keeps the nation
C5_Witness ==
    /\ sent.outcome = "ClaimedByOther"
    /\ Cardinality(DOMAIN fwdm) = 2
    /\ \E u \in DOMAIN claimed_at : now >= claimed_at[u] + CooldownHours * TicksPerHour

\* C6: after a member's successful self-service claim at time t, their
\* self-service claims started before t + 1 hour are rejected with Cooldown
\* and change neither the mapping nor the title cache; one started at or
\* after t + 1 hour is not rejected and leaves no cooldown entry older
\* than the hour.
C6_CooldownWindow ==
    [][\A f \in DOMAIN flows, m \in DOMAIN claimed_at, inp \in ClaimInputs :
          ClaimStart(f, m, m, inp) =>
              IF now < claimed_at[m] + CooldownHours * TicksPerHour
              THEN EndsWith(f, "Cooldown") /\ UNCHANGED <<fwdm, invm, cache>>
              ELSE ~EndsWith(f, "Cooldown") /\ m \notin DOMAIN cooldowns']_vars

\* C7: a third-party claim is never rejected by the cooldown and leaves
\* the cooldown table unchanged, at its start and when it commits.
C7_ThirdPartyLeavesCooldowns ==
    [][/\ \A f \in DOMAIN flows, a \in Users, m \in Users, inp \in ClaimInputs :
             a # m /\ ClaimStart(f, a, m, inp) =>
                 ~EndsWith(f, "Cooldown") /\ UNCHANGED cooldowns
       /\ \A f \in DOMAIN flows, api \in ApiOutcomes :
             flows[f].third_party /\ SetNationVerify(f, api) => UNCHANGED cooldowns]_vars

(***************************************************************************)
(* Data deletion and the role reconciler (C3, C8, C9), under SpecRoles.    *)
(***************************************************************************)
\* C3: a data-deletion request for a user with a claimed nation removes
\* the user's entry from memory and, at transaction exit, from the
\* persisted per-user field, and goes on to remove the roles named in ALL
\* in every enabled community.
C3_DeletionRemovesAndStrips ==
    [][\A f \in DOMAIN flows, u \in Users, r \in Requesters :
          /\ u \in DOMAIN fwdm /\ ALL \in DOMAIN cache
          /\ r \in {"discord_deleted_user", "owner", "user", "user_strict"}
          /\ DeleteData(f, u, r)
          => /\ u \notin DOMAIN fwdm'
             /\ u \notin DOMAIN persisted'
             /\ flows'[f].pc = "strip" /\ flows'[f].todo = EnabledSeq]_vars

\* the member's current roles that no title of ALL names
ExternallyManaged(g, u) == {r \in member_roles[g][u] : str_lower(r) \notin cache[ALL]}

\* the roles of the community that the cached titles of the member's
\* nation name (the default is "ex-nation")
ResolvedRoles(g, u) ==
    LET titles == IF fwdm[u] \in DOMAIN cache THEN cache[fwdm[u]] ELSE {"ex-nation"}
    IN  {r \in SeqToSet(GuildRoles[g]) : str_lower(r) \in titles}

\* the member u of g, who has a nation, is reconciled in this step, by the
\* refresh task or by a claim, and member.edit answers `forbidden` if called
Reconciles(g, u, forbidden) ==
    /\ ALL \in DOMAIN cache /\ u \in DOMAIN fwdm /\ u \in DOMAIN member_roles[g]
    /\ \/ /\ task.pc = "reconcile" /\ task.todo # <<>> /\ Head(task.todo) = <<g, u>>
          /\ TaskReconcile(forbidden)
       \/ \E f \in DOMAIN flows :
             /\ flows[f].pc = "roles" /\ flows[f].todo # <<>>
             /\ Head(flows[f].todo) = g /\ flows[f].member = u
             /\ SetNationRoles(f, forbidden)

\* C8: reconciling a member whose roles already are externally_managed
\* \cup resolved issues no role-mutation call.
C8_ReconcileIdempotent ==
    [][\A g \in Guilds, u \in Users, forbidden \in BOOLEAN :
          /\ Reconciles(g, u, forbidden)
          /\ member_roles[g][u] = ExternallyManaged(g, u) \cup ResolvedRoles(g, u)
          => edit_issued' = FALSE /\ UNCHANGED member_roles]_vars

\* C9: after a member with a nation is reconciled their roles are
\* externally_managed \cup resolved, also when no title resolves.
C9_ReconcileResult ==
    [][\A g \in Guilds, u \in Users :
          Reconciles(g, u, FALSE) =>
              member_roles'[g][u] = ExternallyManaged(g, u) \cup ResolvedRoles(g, u)]_vars

(***************************************************************************)
(* The sleep of the refresh task (C10), under SpecSleep.                   *)
(***************************************************************************)
\* C10: with o = now mod PERIOD the wait is 2 * PERIOD - o when PERIOD - o
\* is less than PERIOD / 4 and PERIOD - o otherwise; it is at least
\* PERIOD / 4 and at most 5 * PERIOD / 4, now + wait is a multiple of
\* PERIOD, and o = 40000 gives 46400.
C10_SleepArithmetic ==
    task.pc = "sleeping" =>
        LET o == clock % PERIOD
        IN  /\ timetil = IF 4 * (PERIOD - o) < PERIOD THEN 2 * PERIOD - o ELSE PERIOD - o
            /\ 4 * timetil >= PERIOD /\ 4 * timetil <= 5 * PERIOD
            /\ (clock + timetil) % PERIOD = 0
            /\ (o = 40000 => timetil = 46400)

\* the task sleeps from offset 40000, less than a quarter period before
\* the mark, in the second period of the clock
C10_Witness ==
    task.pc = "sleeping" /\ clock = PERIOD + 40000 /\ timetil = 46400

(***************************************************************************)
(* The refresh task and its life cycle (C11-C14, C19, C20), under SpecTask.*)
(***************************************************************************)
\* C11: self.cache changes only in the step that ends the supplementary
\* phase of a cycle without an exception, and then to the result of a
\* whole cycle, all aggregators applied to a fresh scratch cache; a step in
\* which the task raises or is cancelled leaves self.cache as it was.
C11_CacheSwappedWhole ==
    [][/\ cache' # cache =>
              /\ task.pc = "supplementary" /\ task'.pc = "reconcile"
              /\ cache' \in CycleCaches
       /\ task'.pc \in {"failed", "cancelled"} /\ task.pc \notin Ended => cache' = cache
       /\ old_task'.pc \in {"failed", "cancelled"} /\ old_task' # old_task => cache' = cache]_vars

\* a cycle has committed and a later cycle lost an aggregator
C11_Witness ==
    /\ cache \in CycleCaches
    /\ task.pc = "failed" /\ task.exc = "SheetsError"

\* the positions of a refresh cycle: the two aggregation phases and the
\* reconciliation
CyclePositions == {"primary", "supplementary", "reconcile"}

\* C12: a fault inside a refresh cycle does not stop the scheduler: no step
\* taken at a position of the cycle, by an aggregator whose retries are
\* exhausted or by the reconciliation, leaves the task ended by that fault;
\* the task goes on to its sleep.
C12_FaultDoesNotStopScheduler ==
    [][task.pc \in CyclePositions /\ ~must_cancel => task'.pc # "failed"]_vars

\* a run was asked for while the task was suspended: the future it waits
\* for is cancelled and the task itself is not
RunRequested == task.pc \in Waits /\ waiting_for = "cancelled" /\ ~must_cancel

\* C13: a run asked for while the task is suspended, in its sleep or for
\* want of a credential, cancels the future and leaves the task alive; the
\* task then goes back to the loop test at the same clock reading, and from
\* there, the cog registered and the credential present, straight into the
\* aggregation; a run asked for while the task is running changes nothing
\* of the task; without a credential the task never enters the aggregation.
\* Under the event loop's fairness the resumed task does reach the
\* aggregation (or the cog is unloaded first).
C13_RunNow ==
    /\ [][/\ IdentifyTaskRun /\ task.pc \in Waits /\ waiting_for = "pending"
              => waiting_for' = "cancelled" /\ task' = task /\ ~must_cancel'
          /\ IdentifyTaskRun /\ task.pc \notin Waits
              => UNCHANGED <<task, waiting_for, must_cancel, cache, clock, timetil>>
          /\ RunRequested /\ task' # task
              => task'.pc = "loop" /\ waiting_for' = "None" /\ clock' = clock
          /\ task.pc = "loop" /\ task' # task /\ ~must_cancel /\ IsRegistered
              => /\ task'.pc = (IF api_key THEN "primary" ELSE "suspended")
                 /\ clock' = clock
          /\ task'.pc \in {"primary", "supplementary"} => api_key']_vars
    /\ (RunRequested /\ api_key /\ IsRegistered) ~> (task.pc = "primary" \/ unloaded)

\* the run was asked for during the sleep that follows a whole cycle, with
\* the credential present
C13_Witness ==
    RunRequested /\ task.pc = "sleeping" /\ api_key /\ cache \in CycleCaches

\* C14: a task that resumes after self.task.cancel(), whether the restart
\* command or the unload cancelled it and wherever it was suspended, ends
\* as cancelled; and _callback sends a report exactly for a task that
\* ended with an exception other than the cancellation.
C14_CancellationIsSilent ==
    [][/\ must_cancel /\ task' # task => task'.pc = "cancelled"
       /\ old_task.pc \notin Ended \cup {"none"} /\ old_task' # old_task
              => old_task'.pc = "cancelled"
       /\ task.pc \in Ended /\ ~task.cb /\ task'.cb
              => (owner_sent' # owner_sent <=> task.pc = "failed")
       /\ old_task.pc \in Ended /\ ~old_task.cb /\ old_task'.cb
              => (owner_sent' # owner_sent <=> old_task.pc = "failed")]_vars

\* the scratch caches the primary phase can end with: every _task_
\* aggregator applied to the fresh scratch cache, none raising
PrimaryResults ==
    {task_region(task_government(task_citizenship(task_army(
         DictSet(EmptyDict, ALL, {"ex-nation"}), af).lc, cf).lc, gf).lc, rf).lc :
        rf \in {x \in RegionFeeds :
                   task_region(DictSet(EmptyDict, ALL, {"ex-nation"}), x).exc = ""},
        cf \in {x \in SheetFeeds : ~x.error},
        af \in {x \in SheetFeeds : ~x.error}, gf \in {x \in GovFeeds : ~x.error}}

\* C19: the supplementary phase starts only from a scratch cache that every
\* primary aggregator has completed on without raising; a primary phase
\* that raises ends the task there, with self.cache as it was, and
\* self.cache changes only in the step that ends the supplementary phase;
\* in that step every key the primary phase left keeps exactly its titles
\* (lower-cased), but the reserved key, which gains "visitors", and every
\* other key of the new cache holds "visitors" alone.
C19_SupplementaryAfterPrimary ==
    [][/\ task'.pc = "supplementary" => task'.localcache \in PrimaryResults
       /\ task.pc = "primary" /\ task'.pc = "failed" => cache' = cache
       /\ cache' # cache =>
              /\ task.pc = "supplementary"
              /\ \A n \in DOMAIN cache' \ {ALL} :
                     IF n \in DOMAIN task.localcache
                     THEN cache'[n] = {str_lower(t) : t \in task.localcache[n]}
                     ELSE cache'[n] = {"visitors"}
              /\ cache'[ALL] = {str_lower(t) : t \in task.localcache[ALL]} \cup {"visitors"}]_vars

\* a cycle has committed in which the world feed named a nation the
\* primary phase knew and one it did not
C19_Witness ==
    /\ task.pc = "reconcile"
    /\ TL \in DOMAIN cache /\ "visitors" \notin cache[TL]
    /\ OL \in DOMAIN cache /\ cache[OL] = {"visitors"}

\* C20: a task that a restart replaced takes one more step, the one in
\* which the cancellation ends it, and that step touches neither the title
\* cache nor any role; and once the cog is unloaded its task enters no
\* aggregation, reconciliation or wait again and changes neither the title
\* cache nor any role, wherever in its loop the cancellation found it, even
\* where _wait_for swallows the cancellation.
C20_OneGenerationDrives ==
    [][/\ old_task' # old_task =>
              \/ old_task' = task /\ task' = TaskAt("loop")
              \/ /\ old_task.pc \in Ended /\ old_task' = [old_task EXCEPT !.cb = TRUE]
                 /\ UNCHANGED <<cache, member_roles, edit_issued, task>>
              \/ /\ old_task.pc \notin Ended /\ old_task'.pc \in Ended
                 /\ UNCHANGED <<cache, member_roles, edit_issued, task>>
       /\ unloaded =>
              /\ UNCHANGED <<cache, member_roles, edit_issued>>
              /\ task' # task => task'.pc \notin CyclePositions \cup Waits
       /\ must_cancel /\ task' # task => UNCHANGED <<cache, member_roles, edit_issued>>]_vars

\* the cog is unloaded and its task, whose cancellation _wait_for has
\* swallowed, is back at the loop test, the credential present
C20_Witness ==
    unloaded /\ task.pc = "loop" /\ ~must_cancel /\ api_key

(***************************************************************************)
(* The normaliser (C15), under SpecNormalize.                              *)
(***************************************************************************)
\* C15: for every raw name whose key is not empty, the key of the
\* displayed key is the key again; and nid raises exactly when nothing of
\* the name would be left: no character of it is a space, a hyphen or a
\* word character.
C15_NormalizeRoundTrip ==
    /\ norm.again # Unset => norm.again = norm.key
    /\ norm.key # Unset =>
           (norm.key = TypeError <=>
               \A i \in DOMAIN norm.raw : norm.raw[i] \notin {" ", "-", "_", "T", "o", "1", "U+00DF"})

(***************************************************************************)
(* The claim workflow end to end (C16, C17), under SpecRoles.              *)
(***************************************************************************)
\* C16: a self-service claim of a nation nobody holds, by a user who holds
\* none, verified in the monitored region, commits the pair in both views,
\* leaves "residents" and not "visitors" in the nation's cache entry, stamps
\* the user's cooldown and goes on to the roles; and such a claim, once it
\* is at the roles (its write not yet in the configuration store, where the
\* user had no nation), ends with the success reported, whatever the
\* refresh task has or has not committed.
C16_ClaimEndToEnd ==
    [][\A f \in DOMAIN flows :
          LET m == flows[f].member
              n == flows[f].nation
          IN  /\ /\ SetNationVerify(f, "the_north_pacific")
                 /\ ~flows[f].third_party /\ m \notin DOMAIN fwdm /\ n \notin DOMAIN invm
                 => /\ m \in DOMAIN fwdm' /\ fwdm'[m] = n
                    /\ n \in DOMAIN invm' /\ invm'[n] = m
                    /\ n \in DOMAIN cache' /\ "residents" \in cache'[n]
                    /\ "visitors" \notin cache'[n]
                    /\ m \in DOMAIN cooldowns' /\ cooldowns'[m] = now
                    /\ flows'[f].pc = "roles"
              /\ /\ flows[f].kind = "claim" /\ flows[f].pc = "roles"
                 /\ ~flows[f].third_party /\ m \notin DOMAIN persisted
                 /\ n \in DOMAIN cache /\ "residents" \in cache[n]
                 /\ flows'[f].pc = "idle"
                 => sent'.outcome \in {"NationSet", "NationSetRolesForbidden"}]_vars

\* C17, under SpecCooldown: a claim whose lookup answers not-found or
\* fails in transport ends there with that outcome reported, and the step
\* changes neither view of the mapping, nor the configuration store or the
\* writes queued for it, nor the cooldown table, nor the title cache, nor
\* any role; and on its way to the lookup, through the checks and the
\* confirmation, the claim has changed none of the mapping, the cache and
\* the roles and has stamped no cooldown.
C17_FailedVerificationMutatesNothing ==
    [][\A f \in DOMAIN flows :
          /\ \A api \in {"NotFound", "HTTPException"} :
                 SetNationVerify(f, api) =>
                     EndsWith(f, IF api = "NotFound" THEN "NotFound" ELSE "Unavailable")
          /\ flows[f].pc = "verify" /\ flows'[f].pc = "idle"
                 /\ sent'.outcome \in {"NotFound", "Unavailable"}
                 => UNCHANGED <<fwdm, invm, persisted, pending, cooldowns, cache,
                                member_roles, edit_issued, claimed_at, unclaimed>>
          /\ flows[f].pc # flows'[f].pc /\ flows'[f].pc \in {"verify", "confirm"}
                 => /\ UNCHANGED <<fwdm, invm, persisted, pending, cache, member_roles>>
                    /\ NotStamped(flows'[f].member)]_vars

\* a claim by a member who holds a nation and a cooldown stamp has just
\* failed in the lookup
C17_Witness ==
    /\ sent.kind = "claim" /\ sent.outcome \in {"NotFound", "Unavailable"}
    /\ fwdm # EmptyDict /\ cooldowns # EmptyDict

(***************************************************************************)
(* The transaction of the identity store (C18), under Spec.                *)
(***************************************************************************)
\* C18: inside `async with self.nations` a set reaches memory at once and
\* neither the configuration store nor the queue of scheduled writes before
\* the scope is left; leaving it writes each touched key, the value in
\* memory or a clear, and releases the lock.  A remove inside the scope
\* succeeds likewise: the data deletion of a user who holds a nation takes
\* the entry out of memory, raises nothing, and has cleared the user's
\* record when the scope is left.
C18_TransactionCommitsAtExit ==
    [][\A f \in DOMAIN flows :
          /\ ImportLoad(f) => UNCHANGED <<persisted, pending>> /\ users_lock'
          /\ ImportCommit(f) /\ flows'[f].pc = "commit" =>
                 \E key \in flows[f].cmkeys :
                     /\ flows'[f].cmkeys = flows[f].cmkeys \ {key}
                     /\ IF key \in DOMAIN fwdm
                        THEN key \in DOMAIN persisted' /\ persisted'[key] = fwdm[key]
                        ELSE key \notin DOMAIN persisted'
          /\ ImportCommit(f) /\ flows'[f].pc = "idle" => flows[f].cmkeys = {} /\ ~users_lock'
          /\ \A u \in DOMAIN fwdm, r \in Requesters :
                 DeleteData(f, u, r) /\ r = "user" =>
                     /\ u \notin DOMAIN fwdm'
                     /\ sent'.outcome # "AttributeError"
                     /\ u \notin DOMAIN persisted'
                     /\ ~users_lock']_vars

(***************************************************************************)
(* The start of the refresh task (C21), under SpecTask.                    *)
(***************************************************************************)
\* C21: the refresh task of the cog that the bot has registered never
\* returns: whatever the order of its first step, the initialization of the
\* store and the registration, it ends only cancelled or with an exception.
C21_RegisteredTaskNeverReturns == registered => task.pc # "finished"

(***************************************************************************)
(* The autorole flag and the set of enabled guilds (C22), under            *)
(* SpecToggle.                                                             *)
(***************************************************************************)
\* C22: once the cog is initialized, and whenever no toggle or import is
\* under way, a guild is in self.enabled_guilds exactly when its persisted
\* "on" flag is set.
C22_EnabledSetMirrorsFlag ==
    loaded /\ (\A f \in DOMAIN flows : flows[f].pc = "idle") =>
        enabled_guilds = {g \in Guilds : guild_on[g]}

(***************************************************************************)
(* The legacy import (C23), under Spec.                                    *)
(***************************************************************************)
\* C23: the bulk load of a legacy file goes through every pair and raises
\* nothing, whatever the pairs collide with: when the load is over each pair
\* of the file is in the mapping unless it lost a collision, its user or
\* its nation being bound otherwise; and the import ends as an import that
\* has run to completion.
C23_ImportRunsToCompletion ==
    [][\A f \in DOMAIN flows :
          /\ ImportLoad(f) =>
                 /\ flows'[f].exc = ""
                 /\ \A i \in DOMAIN flows[f].pairs :
                        LET nation == flows[f].pairs[i][1]
                            user   == flows[f].pairs[i][2]
                        IN  \/ user \in DOMAIN fwdm' /\ fwdm'[user] = nation
                            \/ user \in DOMAIN fwdm' /\ fwdm'[user] # nation
                            \/ nation \in DOMAIN invm' /\ invm'[nation] # user
          /\ ImportCommit(f) /\ flows'[f].pc = "idle" => sent'.outcome = "Imported"]_vars

(***************************************************************************)
(* The reserved key of the title cache (C24), under SpecRoles.             *)
(***************************************************************************)
\* C24: whenever the cog is registered, so that a claim, a removal, a
\* member join or a data deletion can be received, self.cache has the key
\* "ALL": before the first refresh cycle has committed as well as after.
C24_CacheHasAllKey == IsRegistered => ALL \in DOMAIN cache

(***************************************************************************)
(* Claims that interleave (C25, C26), under Spec.                          *)
(***************************************************************************)
\* C25: when two users claim the same unclaimed nation and their claims
\* interleave, one ends as the owner and the other with the reported
\* conflict: the self-service claim whose lookup answers after the nation
\* went to another user ends with "already claimed by", leaves the mapping
\* as it is, and does not die.
C25_RacingClaimsOneWinner ==
    [][\A f \in DOMAIN flows, api \in ApiOutcomes :
          (/\ VerifiedSet(f, api)
           /\ ~flows[f].third_party
           /\ flows[f].nation \in DOMAIN invm
           /\ invm[flows[f].nation] # flows[f].member)
          => /\ flows'[f].pc = "idle"
             /\ sent' = Report(flows[f], "ClaimedByOther")
             /\ fwdm' = fwdm /\ invm' = invm]_vars

\* C26: a user completes at most one self-service claim per hour, also
\* when two of their claims interleave: a self-service claim of a user who
\* has completed one before commits only if that commit is an hour old or
\* more, and it replaces the nation the user holds only after the reply
\* "yes".
C26_OneClaimPerHour ==
    [][\A f \in DOMAIN flows, api \in ApiOutcomes :
          (/\ VerifiedSet(f, api)
           /\ ~flows[f].third_party
           /\ flows[f].member \in DOMAIN claimed_at
           /\ flows[f].member \in DOMAIN fwdm'
           /\ fwdm'[flows[f].member] = flows[f].nation)
          => LET m == flows[f].member
             IN  /\ now - claimed_at[m] >= CooldownHours * TicksPerHour
                 /\ m \in DOMAIN fwdm /\ fwdm[m] # flows[f].nation =>
                        flows[f].answer = "True"]_vars

(***************************************************************************)
(* Roles after a third-party removal (C27), under SpecRoles.               *)
(***************************************************************************)
\* C27: roles granted through a claim do not outlive the claim: when a
\* refresh cycle that began after a third-party removal is complete, the
\* former owner, unless they have claimed again, holds in no guild whose
\* flag is on a role that they were granted and whose lower-cased name is
\* in cache["ALL"].
C27_RolesDoNotOutliveClaim ==
    [][task.pc = "reconcile" /\ task'.pc = "sleeping" =>
          \A u \in DOMAIN unclaimed, g \in Guilds :
              (/\ unclaimed[u] = "cycle"
               /\ u \notin DOMAIN fwdm'
               /\ guild_on[g]
               /\ u \in DOMAIN member_roles'[g])
              => \A r \in member_roles'[g][u] \ InitialRoles[g][u] :
                     str_lower(r) \notin cache'[ALL]]_vars

=============================================================================
